---- MODULE Spec2Model ----
(***************************************************************************)
(* Model of the arch crawler: file walking, dotted module names, module    *)
(* building, package-root discovery and the crawl loop; and of the data    *)
(* models built from it: edges, dictionaries, JSON, the Mermaid diagrams   *)
(* and the text tree.                                                      *)
(*                                                                         *)
(* A string is a sequence of characters.  The characters are the tokens    *)
(* of Alphabet: "/" and "." are the path separator and the dot, every      *)
(* other token stands for one run of ordinary characters.  Every string    *)
(* operation of the source (split, join, replace, lstrip, endswith, stem)  *)
(* is computed on these sequences.                                         *)
(***************************************************************************)
EXTENDS Integers, Sequences, FiniteSets, TLC

(***************************************************************************)
(* Bounds                                                                  *)
(***************************************************************************)
\* at most this many files exist in the file system
MaxFiles == 2
\* at most this many of them do not parse
MaxBad == 1

\* the most modules a Package built by hand holds
MaxModules == 2

\* the most instances made without their sequence fields, and the most
\* appends to their fields
MaxInstances == 2
MaxAppends == 2

(***************************************************************************)
(* Strings                                                                 *)
(***************************************************************************)
SLASH == "/"
DOT == "."

StartsWith(s, p) ==
  /\ Len(p) <= Len(s)
  /\ SubSeq(s, 1, Len(p)) = p

EndsWith(s, p) ==
  /\ Len(p) <= Len(s)
  /\ SubSeq(s, Len(s) - Len(p) + 1, Len(s)) = p

Drop(s, n) == SubSeq(s, n + 1, Len(s))

\* str.split(sep) for a one-character separator: the pieces between the
\* separators, empty pieces kept
RECURSIVE SplitAcc(_, _, _)
SplitAcc(s, c, cur) ==
  IF s = <<>> THEN <<cur>>
  ELSE IF Head(s) = c THEN <<cur>> \o SplitAcc(Tail(s), c, <<>>)
  ELSE SplitAcc(Tail(s), c, Append(cur, Head(s)))

SplitOn(s, c) == SplitAcc(s, c, <<>>)

\* sep.join(parts)
RECURSIVE JoinWith(_, _)
JoinWith(parts, sep) ==
  IF parts = <<>> THEN <<>>
  ELSE IF Len(parts) = 1 THEN parts[1]
  ELSE parts[1] \o sep \o JoinWith(Tail(parts), sep)

\* str.replace(old, new): every non-overlapping occurrence, left to right
RECURSIVE ReplaceAll(_, _, _)
ReplaceAll(s, old, new) ==
  IF s = <<>> THEN <<>>
  ELSE IF old # <<>> /\ StartsWith(s, old)
    THEN new \o ReplaceAll(Drop(s, Len(old)), old, new)
  ELSE <<Head(s)>> \o ReplaceAll(Tail(s), old, new)

\* str.lstrip(chars)
RECURSIVE LStrip(_, _)
LStrip(s, chars) ==
  IF s # <<>> /\ Head(s) \in chars THEN LStrip(Tail(s), chars) ELSE s

\* the elements of a sequence that are not in T, in order
SelectSeqNotIn(s, T) == SelectSeq(s, LAMBDA x : x \notin T)

Range(s) == {s[i] : i \in DOMAIN s}

\* the injective sequences over a finite set: its possible listing orders
Orders(S) ==
  {f \in [1..Cardinality(S) -> S] : \A i, j \in 1..Cardinality(S) : f[i] = f[j] => i = j}

(***************************************************************************)
(* Paths (posix flavour)                                                   *)
(***************************************************************************)
IsAbs(s) == s # <<>> /\ Head(s) = SLASH

\* the segments of a path string: empty and "." pieces are collapsed
Segments(s) == SelectSeqNotIn(SplitOn(s, SLASH), {<<>>, <<DOT>>})

\* pathlib.Path(s): anchor and parts
PathOf(s) == [abs |-> IsAbs(s), parts |-> Segments(s)]

\* str(Path)
PathStr(p) ==
  IF p.abs THEN <<SLASH>> \o JoinWith(p.parts, <<SLASH>>)
  ELSE IF p.parts = <<>> THEN <<DOT>>
  ELSE JoinWith(p.parts, <<SLASH>>)

\* Path.name
PathName(p) == IF p.parts = <<>> THEN <<>> ELSE p.parts[Len(p.parts)]

\* Path.parent
PathParent(p) ==
  IF p.parts = <<>> THEN p
  ELSE [abs |-> p.abs, parts |-> SubSeq(p.parts, 1, Len(p.parts) - 1)]

\* index of the last dot of a name, 0 when there is none
RECURSIVE LastDot(_, _)
LastDot(name, i) ==
  IF i = 0 THEN 0
  ELSE IF name[i] = DOT THEN i
  ELSE LastDot(name, i - 1)

\* the suffix rule of pathlib: the last dot counts only when it is neither
\* the first nor the last character of the name
HasSuffix(name) ==
  LET i == LastDot(name, Len(name)) IN 1 < i /\ i < Len(name)

\* PurePath.stem of a name
StemOfName(name) ==
  IF HasSuffix(name) THEN SubSeq(name, 1, LastDot(name, Len(name)) - 1) ELSE name

\* os.path.join(a, b)
OsJoin(a, b) ==
  IF IsAbs(b) THEN b
  ELSE IF a = <<>> \/ EndsWith(a, <<SLASH>>) THEN a \o b
  ELSE a \o <<SLASH>> \o b

\* os.path.basename: what follows the last separator
OsBasename(s) == LET parts == SplitOn(s, SLASH) IN parts[Len(parts)]

\* os.path.dirname: what precedes the last separator, trailing separators
\* removed unless it is all separators
RECURSIVE RStripSlash(_)
RStripSlash(s) ==
  IF s # <<>> /\ s[Len(s)] = SLASH THEN RStripSlash(SubSeq(s, 1, Len(s) - 1)) ELSE s

OsDirname(s) ==
  LET head == SubSeq(s, 1, Len(s) - Len(OsBasename(s)))
  IN IF head # <<>> /\ RStripSlash(head) # <<>> THEN RStripSlash(head) ELSE head

\* os.path.normpath of a path without ".." segments
OsNormpath(s) == PathStr(PathOf(s))

(***************************************************************************)
(* The file system                                                         *)
(***************************************************************************)
InitPy == <<"__init__", DOT, "py">>
ModPy == <<"mod", DOT, "py">>
APy == <<"a", DOT, "py">>
XTxt == <<"x", DOT, "txt">>
DirA == <<"a">>
DirB == <<"b">>
DirAB == <<"a", "b">>
DirBuild == <<"build">>
DirPriv == <<"priv">>

\* crawler.IGNORED_DIRS
IGNORED_DIRS ==
  { <<"__pycache__">>, <<DOT, "git">>, <<DOT, "hg">>, <<DOT, "svn">>, <<DOT, "tox">>,
    <<DOT, "mypy_cache">>, <<DOT, "pytest_cache">>, <<DOT, "venv">>, <<"venv">>,
    <<"env">>, <<"build">>, <<"dist">> }

\* the files that may exist, each the list of its segments from "/"
Universe ==
  { <<InitPy>>,
    <<DirA, InitPy>>, <<DirA, ModPy>>, <<DirA, APy>>, <<DirA, XTxt>>,
    <<DirA, DirA, InitPy>>, <<DirA, DirA, ModPy>>,
    <<DirA, DirB, InitPy>>,
    <<DirA, DirBuild, ModPy>>, <<DirA, DirBuild, DirA, ModPy>>,
    <<DirA, DirA, DirBuild, APy>>,
    <<DirAB, ModPy>>,
    <<DirB, DirA, ModPy>> }

\* the working directory of the process
Cwd == <<DirA>>

\* a directory that exists and whose entries cannot be listed or reached
LockedDir == <<DirPriv>>

\* what a file holds: text that parses, text with unbalanced syntax, or
\* bytes that are not UTF-8
Contents == {"valid", "syntax", "binary"}

VARIABLES
  fs,        \* the files that exist: file -> what it holds
  pc,        \* "start", "walk", "done" or "raised"
  op,        \* the entry point that was called
  args,      \* its arguments
  stack,     \* os.walk: the directories still to visit, next first
  queue,     \* os.walk: the files of the current directory still to yield
  yielded,   \* the paths the walker has yielded so far
  rootList,  \* the listing order of the walked root
  modules,   \* crawl_package: dotted name -> Module
  ret,       \* what the call returned: [exc, val], and none for an Optional
  exc,       \* the exception that left the call, "none" when none did
  heap,      \* the list objects made by the dataclass constructors
  objs       \* the instances made so far: the class and, for each of its
             \* sequence fields, the list object it refers to

vars == <<fs, pc, op, args, stack, queue, yielded, rootList, modules, ret, exc, heap, objs>>

Files == DOMAIN fs

IsPrefix(p, s) == Len(p) <= Len(s) /\ SubSeq(s, 1, Len(p)) = p

\* the directories that exist: the ancestors of the files, "/", the working
\* directory and the locked directory
Dirs ==
  UNION {{SubSeq(f, 1, n) : n \in 0..(Len(f) - 1)} : f \in Files} \cup {<<>>, Cwd, LockedDir}

\* the absolute segments a path string names
AbsSegs(s) == IF IsAbs(s) THEN Segments(s) ELSE Cwd \o Segments(s)

\* os.path.isdir, os.path.isfile
OsIsDir(s) == AbsSegs(s) \in Dirs
OsIsFile(s) ==
  /\ AbsSegs(s) \in Files
  /\ ~IsPrefix(LockedDir, AbsSegs(s))

\* the names of the entries of a directory
Children(d) ==
  {x[Len(d) + 1] : x \in {y \in Files \cup Dirs : Len(y) > Len(d) /\ IsPrefix(d, y)}}

(***************************************************************************)
(* Library calls that read the file system                                 *)
(***************************************************************************)
\* Path.absolute() and Path.resolve(): there are no symbolic links and no
\* ".." segments, so both anchor a relative path at the working directory
PathAbsolute(p) == IF p.abs THEN p ELSE [abs |-> TRUE, parts |-> Cwd \o p.parts]
PathResolve(p) == PathAbsolute(p)

\* os.path.abspath
OsAbspath(s) == PathStr(PathAbsolute(PathOf(s)))

\* the length of the longest common prefix of two lists of segments
RECURSIVE CommonLen(_, _)
CommonLen(a, b) ==
  IF a = <<>> \/ b = <<>> \/ Head(a) # Head(b) THEN 0
  ELSE 1 + CommonLen(Tail(a), Tail(b))

\* os.path.relpath(path, start)
OsRelpath(path, start) ==
  LET pl == AbsSegs(path)
      sl == AbsSegs(start)
      i == CommonLen(sl, pl)
      rel == [k \in 1..(Len(sl) - i) |-> <<DOT, DOT>>] \o Drop(pl, i)
  IN IF rel = <<>> THEN <<DOT>> ELSE JoinWith(rel, <<SLASH>>)

\* os.scandir / os.listdir: the error it ends with, "none" when it lists
ListError(s) ==
  IF AbsSegs(s) \in Files THEN "NotADirectoryError"
  ELSE IF AbsSegs(s) \notin Dirs THEN "FileNotFoundError"
  ELSE IF IsPrefix(LockedDir, AbsSegs(s)) THEN "PermissionError"
  ELSE "none"

\* open(path).read() followed by ast.parse: the error it ends with
ParseError(path) ==
  IF AbsSegs(path) \notin Files THEN "FileNotFoundError"
  ELSE IF fs[AbsSegs(path)] = "syntax" THEN "SyntaxError"
  ELSE IF fs[AbsSegs(path)] = "binary" THEN "UnicodeDecodeError"
  ELSE "none"

\* ast nodes: the expressions _extract_name reads and the statements that
\* the parsers look at
Name(id) == [kind |-> "Name", id |-> id]
Attribute(value, attr) == [kind |-> "Attribute", value |-> value, attr |-> attr]
FunctionDef(name, lineno, decorator_list, body) ==
  [kind |-> "FunctionDef", name |-> name, lineno |-> lineno, decorator_list |-> decorator_list,
   body |-> body]
AsyncFunctionDef(name, lineno, decorator_list, body) ==
  [kind |-> "AsyncFunctionDef", name |-> name, lineno |-> lineno, decorator_list |-> decorator_list,
   body |-> body]
ClassDef(name, lineno, bases, body) ==
  [kind |-> "ClassDef", name |-> name, lineno |-> lineno, bases |-> bases, body |-> body]
Import(names) == [kind |-> "Import", names |-> names]
ImportFrom(module, names) == [kind |-> "ImportFrom", module |-> module, names |-> names]
Assign(lineno) == [kind |-> "Assign", lineno |-> lineno]
\* a compound statement: if, try
If(lineno, body) == [kind |-> "If", lineno |-> lineno, body |-> body]

\* the text of mod.py:
\*   import b, a
\*   class A(B, x.B):
\*       async def m(self):
\*           def h(): ...
\*       @a
\*       def _p(self): ...
\*       y = 1
\*       class B:
\*           def x(self): ...
\*       if y:
\*           def h(self): ...
\*   async def g(): ...
\*   def f():
\*       import x
\*       def h(): ...
\*       class B: ...
\*   if g:
\*       def h(): ...
\*       class B: ...
\*       import x
\*       from mod import x
\*   from a import x, b
\*   from . import x
\*   import b
SourceMod ==
  << Import(<< <<"b">>, <<"a">> >>),
     ClassDef(<<"A">>, 2, <<Name(<<"B">>), Attribute(Name(<<"x">>), <<"B">>)>>,
              <<AsyncFunctionDef(<<"m">>, 3, <<>>, <<FunctionDef(<<"h">>, 4, <<>>, <<>>)>>),
                FunctionDef(<<"_", "p">>, 5, <<Name(<<"a">>)>>, <<>>),
                Assign(6),
                ClassDef(<<"B">>, 7, <<>>, <<FunctionDef(<<"x">>, 8, <<>>, <<>>)>>),
                If(9, <<FunctionDef(<<"h">>, 10, <<>>, <<>>)>>)>>),
     AsyncFunctionDef(<<"g">>, 11, <<>>, <<>>),
     FunctionDef(<<"f">>, 12, <<>>,
                 <<Import(<< <<"x">> >>),
                   FunctionDef(<<"h">>, 14, <<>>, <<>>),
                   ClassDef(<<"B">>, 15, <<>>, <<>>)>>),
     If(16, <<FunctionDef(<<"h">>, 17, <<>>, <<>>),
              ClassDef(<<"B">>, 18, <<>>, <<>>),
              Import(<< <<"x">> >>),
              ImportFrom(<<"mod">>, << <<"x">> >>)>>),
     ImportFrom(<<"a">>, << <<"x">>, <<"b">> >>),
     ImportFrom(<<>>, << <<"x">> >>),
     Import(<< <<"b">> >>) >>

\* the text of a.py:
\*   import mod
\*   class B:
\*       def x(self): ...
\*   def _h(): ...
SourceA ==
  << Import(<< <<"mod">> >>),
     ClassDef(<<"B">>, 2, <<>>, <<FunctionDef(<<"x">>, 3, <<>>, <<>>)>>),
     FunctionDef(<<"_", "h">>, 4, <<>>, <<>>) >>

\* the text of __init__.py:
\*   from a import x
SourceInit == <<ImportFrom(<<"a">>, << <<"x">> >>)>>

\* the top-level statements of a parsed file: every file of the same name
\* holds the same text
TreeBody(path) ==
  LET name == AbsSegs(path)[Len(AbsSegs(path))]
  IN IF name = ModPy THEN SourceMod
     ELSE IF name = APy THEN SourceA
     ELSE IF name = InitPy THEN SourceInit
     ELSE <<>>

(***************************************************************************)
(* Dictionaries: a dict is the sequence of its items in insertion order    *)
(***************************************************************************)
DictHas(d, k) == \E i \in 1..Len(d) : d[i].k = k

\* mutant: d.setdefault(k, v), the first value of a key is kept
DictSetDefault(d, k, v) ==
  IF DictHas(d, k) THEN d ELSE Append(d, [k |-> k, v |-> v])

\* d[k] for a key that is present
DictGet(d, k) == d[CHOOSE i \in 1..Len(d) : d[i].k = k].v

\* d[k] = v: a key that is present keeps its place
DictSet(d, k, v) ==
  IF DictHas(d, k)
    THEN [i \in 1..Len(d) |-> IF d[i].k = k THEN [k |-> k, v |-> v] ELSE d[i]]
    ELSE Append(d, [k |-> k, v |-> v])

\* the characters in ascending code-point order
Alphabet ==
  <<DOT, SLASH, "<root>", "A", "B", "\\", "_", "__init__", "a", "b", "build", "f", "g", "h", "m", "mod",
    "p", "priv", "py", "txt", "x", "zz">>

CharRank(c) == CHOOSE i \in 1..Len(Alphabet) : Alphabet[i] = c

\* a < b for strings
RECURSIVE StrLess(_, _)
StrLess(a, b) ==
  IF b = <<>> THEN FALSE
  ELSE IF a = <<>> THEN TRUE
  ELSE IF Head(a) # Head(b) THEN CharRank(Head(a)) < CharRank(Head(b))
  ELSE StrLess(Tail(a), Tail(b))

\* sorted(d.items()) for distinct keys
RECURSIVE SortItems(_)
SortItems(d) ==
  IF d = <<>> THEN <<>>
  ELSE LET m == CHOOSE i \in 1..Len(d) : \A j \in 1..Len(d) : j = i \/ StrLess(d[i].k, d[j].k)
       IN <<d[m]>> \o SortItems([i \in 1..(Len(d) - 1) |-> IF i < m THEN d[i] ELSE d[i + 1]])

\* mutant: the list as it was collected
AsCollected(xs) == xs

\* sorted(set(xs)) for a list of strings
RECURSIVE SortedSet(_)
SortedSet(xs) ==
  IF xs = <<>> THEN <<>>
  ELSE LET S == Range(xs)
           m == CHOOSE x \in S : \A y \in S : y = x \/ StrLess(x, y)
       IN <<m>> \o SortedSet(SelectSeq(xs, LAMBDA y : y # m))

\* sorted(xs) for a list of strings: repeated strings stay
RECURSIVE Sorted(_)
Sorted(xs) ==
  IF xs = <<>> THEN <<>>
  ELSE LET m == CHOOSE i \in 1..Len(xs) : \A j \in 1..Len(xs) : ~StrLess(xs[j], xs[i])
       IN <<xs[m]>> \o Sorted([i \in 1..(Len(xs) - 1) |-> IF i < m THEN xs[i] ELSE xs[i + 1]])

\* the number of elements of the sequences of a sequence
RECURSIVE SumLen(_)
SumLen(ss) == IF ss = <<>> THEN 0 ELSE Len(Head(ss)) + SumLen(Tail(ss))

\* the concatenation of a sequence of sequences
RECURSIVE Flatten(_)
Flatten(ss) == IF ss = <<>> THEN <<>> ELSE Head(ss) \o Flatten(Tail(ss))

(***************************************************************************)
(* data_models.py: the dataclasses and what they read from a syntax tree   *)
(***************************************************************************)
\* utils._extract_name for names and attributes
RECURSIVE _extract_name(_)
_extract_name(node) ==
  IF node.kind = "Name" THEN node.id
  ELSE _extract_name(node.value) \o <<DOT>> \o node.attr

ExtractNames(nodes) == [i \in 1..Len(nodes) |-> _extract_name(nodes[i])]

\* Python values with their types, for the code that looks at the type
PyStr(s) == [type |-> "str", val |-> s]
PyInt(n) == [type |-> "int", val |-> n]
PyList(xs) == [type |-> "list", val |-> xs]
PyDict(items) == [type |-> "dict", val |-> items]
PosixPath(s) == [type |-> "PosixPath", val |-> s]

\* an instance of a dataclass carries its class, a dict does not
Function(name, lineno, decorators) ==
  [cls |-> "Function", name |-> name, lineno |-> lineno, decorators |-> decorators]

Class(name, lineno, bases, methods) ==
  [cls |-> "Class", name |-> name, lineno |-> lineno, bases |-> bases, methods |-> methods]

Module(name, path, classes, functions, imports) ==
  [cls |-> "Module", name |-> name, path |-> path, classes |-> classes,
   functions |-> functions, imports |-> imports]

Package(root_path, roots, mods) ==
  [cls |-> "Package", root_path |-> root_path, roots |-> roots, modules |-> mods]

NoModule == Module(<<>>, <<>>, <<>>, <<>>, <<>>)

IsFunctionNode(n) == n.kind \in {"FunctionDef", "AsyncFunctionDef"}

Function_from_tree_node(node) ==
  Function(node.name, node.lineno, ExtractNames(node.decorator_list))

FunctionsOf(nodes) == [i \in 1..Len(nodes) |-> Function_from_tree_node(nodes[i])]

Class_from_tree_node(node) ==
  Class(node.name, node.lineno, ExtractNames(node.bases),
        FunctionsOf(SelectSeq(node.body, IsFunctionNode)))

ClassesOf(nodes) == [i \in 1..Len(nodes) |-> Class_from_tree_node(nodes[i])]

\* mutant: every statement of the file, the nested ones too (ast.walk)
RECURSIVE Walk(_)
Walk(nodes) ==
  IF nodes = <<>> THEN <<>>
  ELSE <<Head(nodes)>> \o (IF "body" \in DOMAIN Head(nodes) THEN Walk(Head(nodes).body) ELSE <<>>)
         \o Walk(Tail(nodes))

OfKind_Deep(body, kind) == SelectSeq(Walk(body), LAMBDA n : n.kind = kind)

\* get_filtered_objects: the statements of one type, in order
OfKind(body, kind) == SelectSeq(body, LAMBDA n : n.kind = kind)

get_classes(body) == ClassesOf(OfKind(body, "ClassDef"))

\* the plain functions come before the async ones
get_functions(body) ==
  FunctionsOf(OfKind(body, "FunctionDef") \o OfKind(body, "AsyncFunctionDef"))

\* the names one statement imports
\* mutant: a from-import contributes its source, the empty one too
ImportedNames_EmptyToo(node) ==
  IF node.kind = "Import" THEN node.names
  ELSE IF node.kind = "ImportFrom" THEN <<node.module>>
  ELSE <<>>

ImportedNames(node) ==
  IF node.kind = "Import" THEN node.names
  ELSE IF node.kind = "ImportFrom" /\ node.module # <<>> THEN <<node.module>>
  ELSE <<>>

ImportsOf(nodes) == Flatten([i \in 1..Len(nodes) |-> ImportedNames(nodes[i])])

\* the import statements come before the from-import statements
get_imports(body) == ImportsOf(OfKind(body, "Import") \o OfKind(body, "ImportFrom"))

(***************************************************************************)
(* crawler.py                                                              *)
(***************************************************************************)
_is_package_dir(path) == OsIsDir(path) /\ OsIsFile(OsJoin(path, InitPy))

IsPythonFile(filename) == EndsWith(filename, <<DOT, "py">>)

\* mutant: no directory is pruned
PruneNothing(dir_names) == dir_names

PruneDirs(dir_names) == SelectSeqNotIn(dir_names, IGNORED_DIRS)

\* one round of os.walk in _iter_python_files for the directory dir_path
\* listed in the order listing: the files to yield and the directories to
\* descend into
WalkFiles(dir_path, listing) ==
  LET file_names == SelectSeq(listing, LAMBDA n : ~OsIsDir(OsJoin(dir_path, n)))
      wanted == SelectSeq(file_names, IsPythonFile)
  IN [i \in 1..Len(wanted) |-> OsJoin(dir_path, wanted[i])]

WalkDirs(dir_path, listing) ==
  LET dir_names == SelectSeq(listing, LAMBDA n : OsIsDir(OsJoin(dir_path, n)))
      kept == PruneDirs(dir_names)
  IN [i \in 1..Len(kept) |-> OsJoin(dir_path, kept[i])]

NotInit(part) == part # <<"__init__">>

_module_name_from_path(root, file_path) ==
  LET rel == PathOf(OsRelpath(file_path, root))
      no_ext == StemOfName(PathName(rel))
      parts == SelectSeq(SplitOn(no_ext, SLASH), NotInit)
  IN ReplaceAll(ReplaceAll(JoinWith(parts, <<DOT>>), <<SLASH>>, <<DOT>>), <<"\\">>, <<DOT>>)

\* mutant: repeated elements stay
KeepRepeated(s, seen) == s

\* the sequence without its repeated elements, first occurrences kept
RECURSIVE Dedup(_, _)
Dedup(s, seen) ==
  IF s = <<>> THEN <<>>
  ELSE IF Head(s) \in seen THEN Dedup(Tail(s), seen)
  ELSE <<Head(s)>> \o Dedup(Tail(s), seen \cup {Head(s)})

\* the name root contributes to the discovered roots
OwnRoot(root) ==
  IF _is_package_dir(root) THEN <<OsBasename(OsNormpath(root))>> ELSE <<>>

\* the errors of os.listdir that _discover_roots handles
ListErrorsCaught == {"FileNotFoundError"}

\* _discover_roots(root), the directory listed in the order listing
_discover_roots(root, listing) ==
  LET err == ListError(root)
      subs == IF err = "none"
                THEN SelectSeq(listing, LAMBDA name : _is_package_dir(OsJoin(root, name)))
                ELSE <<>>
  IN IF err \notin ListErrorsCaught \cup {"none"}
       THEN [exc |-> err, val |-> <<>>]
       ELSE [exc |-> "none", val |-> Dedup(OwnRoot(root) \o subs, {})]

\* mutant: only the syntax error is handled
ParseErrorsCaughtSyntaxOnly == {"SyntaxError"}

\* the errors of reading and parsing that _parse_module and get_tree handle
ParseErrorsCaught == {"SyntaxError", "UnicodeDecodeError"}

_parse_module(file_path, dotted_name) ==
  LET err == ParseError(file_path)
  IN IF err \in ParseErrorsCaught THEN [exc |-> "none", none |-> TRUE, val |-> NoModule]
     ELSE IF err # "none" THEN [exc |-> err, none |-> TRUE, val |-> NoModule]
     ELSE [exc |-> "none", none |-> FALSE,
           val |-> LET body == TreeBody(file_path)
                   IN Module(dotted_name, OsAbspath(file_path),
                             ClassesOf(OfKind(body, "ClassDef")),
                             FunctionsOf(SelectSeq(body, IsFunctionNode)),
                             SortedSet(ImportsOf(body)))]

\* the name crawl_package gives the module of file_path
CrawlName(abs_root, file_path) ==
  LET dotted == _module_name_from_path(abs_root, file_path)
  IN IF dotted = <<>> THEN OsBasename(OsDirname(file_path)) ELSE dotted

(***************************************************************************)
(* data_models.py                                                          *)
(***************************************************************************)
Edge(type, from, to) == [type |-> type, from |-> from, to |-> to]

Function_build_edges(func, module_name) ==
  Edge("module_contains", module_name, module_name \o <<DOT>> \o func.name)

\* mutant: the inherits edges come before the class_contains edges
Class_build_edges_BasesFirst(cls, module_name) ==
  LET full == module_name \o <<DOT>> \o cls.name
  IN <<Edge("module_contains", module_name, full)>>
       \o [i \in 1..Len(cls.bases) |-> Edge("inherits", full, cls.bases[i])]
       \o [i \in 1..Len(cls.methods) |->
             Edge("class_contains", full, full \o <<DOT>> \o cls.methods[i].name)]

Class_build_edges(cls, module_name) ==
  LET full == module_name \o <<DOT>> \o cls.name
  IN <<Edge("module_contains", module_name, full)>>
       \o [i \in 1..Len(cls.methods) |->
             Edge("class_contains", full, full \o <<DOT>> \o cls.methods[i].name)]
       \o [i \in 1..Len(cls.bases) |-> Edge("inherits", full, cls.bases[i])]

Module_build_edges(m) ==
  Flatten([i \in 1..Len(m.classes) |-> Class_build_edges(m.classes[i], m.name)])
    \o [i \in 1..Len(m.functions) |-> Function_build_edges(m.functions[i], m.name)]
    \o [i \in 1..Len(m.imports) |-> Edge("imports", m.name, m.imports[i])]

Package_build_edges(pkg) ==
  Flatten([i \in 1..Len(pkg.modules) |-> Module_build_edges(pkg.modules[i].v)])

Function_to_dict(f) == [name |-> f.name, lineno |-> f.lineno, decorators |-> f.decorators]

Class_to_dict(c) ==
  [name |-> c.name, lineno |-> c.lineno, bases |-> c.bases,
   methods |-> [i \in 1..Len(c.methods) |->
                  [name |-> c.methods[i].name, lineno |-> c.methods[i].lineno,
                   decorators |-> c.methods[i].decorators]]]

Module_to_dict(m) ==
  [name |-> m.name, path |-> m.path,
   classes |-> [i \in 1..Len(m.classes) |-> Class_to_dict(m.classes[i])],
   functions |-> [i \in 1..Len(m.functions) |-> Function_to_dict(m.functions[i])],
   imports |-> m.imports]

\* mutant: the modules in insertion order
ItemsAsInserted(d) == d

\* sorted(self.modules.items())
SortedItems(d) == SortItems(d)

Package_to_dict(pkg) ==
  [root_path |-> pkg.root_path,
   roots |-> pkg.roots,
   modules |-> LET items == SortedItems(pkg.modules)
               IN [i \in 1..Len(items) |-> [k |-> items[i].k, v |-> Module_to_dict(items[i].v)]],
   edges |-> Package_build_edges(pkg)]

\* the root argument None
NoneRoot == <<"<None>">>

\* Path.with_suffix(""): fails on a path without a name
WithSuffixFails(p) == PathName(p) = <<>>

WithoutSuffix(p) ==
  [abs |-> p.abs,
   parts |-> SubSeq(p.parts, 1, Len(p.parts) - 1) \o <<StemOfName(PathName(p))>>]

\* Path.relative_to: fails unless other is an ancestor of p or p itself
IsRelativeTo(p, other) == p.abs = other.abs /\ IsPrefix(other.parts, p.parts)

RelativeTo(p, other) == [abs |-> FALSE, parts |-> Drop(p.parts, Len(other.parts))]

\* the fallback of convert_path_to_dot for a file that is not under root
FallbackRel(file_p, root_path) ==
  PathOf(LStrip(ReplaceAll(PathStr(file_p), PathStr(root_path), <<>>), {SLASH, "\\"}))

convert_path_to_dot(root, file_path) ==
  LET file_p == PathResolve(PathOf(file_path))
      root_path == PathResolve(PathOf(root))
      rel == IF root # NoneRoot
               THEN IF IsRelativeTo(file_p, root_path)
                      THEN RelativeTo(file_p, root_path)
                      ELSE FallbackRel(file_p, root_path)
               ELSE PathOf(LStrip(PathStr(file_p), {SLASH, "\\"}))
  IN IF WithSuffixFails(rel) THEN [exc |-> "ValueError", val |-> <<>>]
     ELSE [exc |-> "none",
           val |-> JoinWith(SelectSeq(WithoutSuffix(rel).parts, NotInit), <<DOT>>)]

\* Module.get_tree: None when the file does not parse
get_tree(path) ==
  LET err == ParseError(path)
  IN IF err \in ParseErrorsCaught THEN [exc |-> "none", none |-> TRUE, body |-> <<>>]
     ELSE IF err # "none" THEN [exc |-> err, none |-> TRUE, body |-> <<>>]
     ELSE [exc |-> "none", none |-> FALSE, body |-> TreeBody(path)]

\* the name from_file gives the module of file_path
FromFileName(file_path, dotted) ==
  IF dotted = <<>> THEN PathName(PathParent(PathOf(file_path))) ELSE dotted

\* Module.from_file: tree.body is read without a test for None
from_file(file_path, root) ==
  LET dotted == convert_path_to_dot(root, file_path)
      tree == get_tree(file_path)
  IN IF dotted.exc # "none" THEN [exc |-> dotted.exc, none |-> TRUE, val |-> NoModule]
     ELSE IF tree.exc # "none" THEN [exc |-> tree.exc, none |-> TRUE, val |-> NoModule]
     ELSE IF tree.none THEN [exc |-> "AttributeError", none |-> TRUE, val |-> NoModule]
     ELSE [exc |-> "none", none |-> FALSE,
           val |-> Module(FromFileName(file_path, dotted.val),
                          PathStr(PathAbsolute(PathOf(file_path))),
                          get_classes(tree.body), get_functions(tree.body),
                          SortedSet(get_imports(tree.body)))]

\* the dictionary of to_dict as a value with its types: root_path has the
\* type the Package was given, every other leaf is a str or an int
Item(key, v) == [k |-> PyStr(<<key>>), v |-> v]

StrList(xs) == PyList([i \in 1..Len(xs) |-> PyStr(xs[i])])

FunctionValue(f) ==
  PyDict(<<Item("name", PyStr(f.name)), Item("lineno", PyInt(f.lineno)),
           Item("decorators", StrList(f.decorators))>>)

ClassValue(c) ==
  PyDict(<<Item("name", PyStr(c.name)), Item("lineno", PyInt(c.lineno)),
           Item("bases", StrList(c.bases)),
           Item("methods", PyList([i \in 1..Len(c.methods) |-> FunctionValue(c.methods[i])]))>>)

ModuleValue(m) ==
  PyDict(<<Item("name", PyStr(m.name)), Item("path", PyStr(m.path)),
           Item("classes", PyList([i \in 1..Len(m.classes) |-> ClassValue(m.classes[i])])),
           Item("functions", PyList([i \in 1..Len(m.functions) |-> FunctionValue(m.functions[i])])),
           Item("imports", StrList(m.imports))>>)

EdgeValue(e) ==
  PyDict(<<Item("type", PyStr(<<e.type>>)), Item("from", PyStr(e.from)), Item("to", PyStr(e.to))>>)

DictValue(d) ==
  PyDict(<<Item("root_path", d.root_path),
           Item("roots", StrList(d.roots)),
           Item("modules", PyDict([i \in 1..Len(d.modules) |->
                                     [k |-> PyStr(d.modules[i].k), v |-> ModuleValue(d.modules[i].v)]])),
           Item("edges", PyList([i \in 1..Len(d.edges) |-> EdgeValue(d.edges[i])]))>>)

\* json.dumps: a str gives a string, an int a number, a list an array, a
\* dict with str keys an object; a value of any other type is a TypeError
RECURSIVE json_dumps(_)
json_dumps(v) ==
  IF v.type = "str" THEN [exc |-> "none", val |-> [json |-> "string", val |-> v.val]]
  ELSE IF v.type = "int" THEN [exc |-> "none", val |-> [json |-> "number", val |-> v.val]]
  ELSE IF v.type = "list" THEN
    LET items == [i \in 1..Len(v.val) |-> json_dumps(v.val[i])]
    IN IF \E i \in 1..Len(items) : items[i].exc # "none"
         THEN [exc |-> "TypeError", val |-> <<>>]
         ELSE [exc |-> "none",
               val |-> [json |-> "array", val |-> [i \in 1..Len(items) |-> items[i].val]]]
  ELSE IF v.type = "dict" THEN
    LET items == [i \in 1..Len(v.val) |-> json_dumps(v.val[i].v)]
    IN IF \E i \in 1..Len(items) : items[i].exc # "none" \/ v.val[i].k.type # "str"
         THEN [exc |-> "TypeError", val |-> <<>>]
         ELSE [exc |-> "none",
               val |-> [json |-> "object",
                        val |-> [i \in 1..Len(items) |-> [k |-> v.val[i].k.val, v |-> items[i].val]]]]
  ELSE [exc |-> "TypeError", val |-> <<>>]

\* json.loads of the text of a JSON value
RECURSIVE json_loads(_)
json_loads(j) ==
  IF j.json = "string" THEN PyStr(j.val)
  ELSE IF j.json = "number" THEN PyInt(j.val)
  ELSE IF j.json = "array" THEN PyList([i \in 1..Len(j.val) |-> json_loads(j.val[i])])
  ELSE PyDict([i \in 1..Len(j.val) |-> [k |-> PyStr(j.val[i].k), v |-> json_loads(j.val[i].v)]])

\* crawler.to_json
to_json(model_dict) == json_dumps(model_dict)

(***************************************************************************)
(* mermaid.py and the to_mermaid_class_diagram methods.  A diagram is the  *)
(* string of its lines joined by "\n"; a piece of fixed text is one        *)
(* character of the string.                                                *)
(***************************************************************************)
NL == "\n"

\* mutant: the level is compared without regard to case
allowed_levels_AnyCase == {"all", "public", "none", "ALL"}

allowed_levels == {"all", "public", "none"}

\* sorted(allowed_levels) as it is printed
SortedLevelsText == <<"['all', 'none', 'public']">>

\* raise ValueError(f"Unsupported {param} '{value}'. Expected one of {sorted(allowed_levels)}")
Unsupported(param, value) ==
  [exc |-> "ValueError",
   msg |-> <<"Unsupported ", param, " '", value, "'. Expected one of ">> \o SortedLevelsText,
   val |-> <<>>]

Returns(val) == [exc |-> "none", msg |-> <<>>, val |-> val]

JoinLines(lines) == JoinWith(lines, <<NL>>)

\* str.splitlines
SplitLines(text) == IF text = <<>> THEN <<>> ELSE SplitOn(text, NL)

\* the lines of a diagram without its "classDiagram" header
DropHeader(text) ==
  LET parts == SplitLines(text)
  IN IF parts # <<>> /\ parts[1] = <<"classDiagram">> THEN Tail(parts) ELSE parts

IsPrivate(name) == name # <<>> /\ Head(name) = "_"

\* sorted(xs, key=lambda x: x.name): a stable sort
RECURSIVE SortedByName(_)
SortedByName(xs) ==
  IF xs = <<>> THEN <<>>
  ELSE LET m == CHOOSE i \in 1..Len(xs) :
                  /\ \A j \in 1..Len(xs) : ~StrLess(xs[j].name, xs[i].name)
                  /\ \A j \in 1..(i - 1) : xs[j].name # xs[i].name
       IN <<xs[m]>> \o SortedByName([i \in 1..(Len(xs) - 1) |-> IF i < m THEN xs[i] ELSE xs[i + 1]])

\* ", ".join(f"@{d}" if not str(d).startswith("@") else str(d) for d in decorators)
DecoratorsText(decorators) ==
  JoinWith([i \in 1..Len(decorators) |->
              IF decorators[i] # <<>> /\ Head(decorators[i]) = "@"
                THEN decorators[i] ELSE <<"@">> \o decorators[i]],
           <<", ">>)

\* the lines of a function node after the header
FunctionLines(func, include_decorators) ==
  << <<"    class ">> \o func.name \o <<" ", "{", NL, "    }">> >>
    \o (IF include_decorators /\ func.decorators # <<>>
          THEN << <<"note for ">> \o func.name \o <<" \"decorators: ">>
                    \o DecoratorsText(func.decorators) \o <<"\"">> >>
          ELSE <<>>)

\* mermaid.render_function_diagram
render_function_diagram(func, detail_level, include_decorators) ==
  IF detail_level \notin allowed_levels THEN Unsupported("detail_level", detail_level)
  ELSE IF detail_level = "none" THEN Returns(JoinLines(<< <<"classDiagram">> >>))
  ELSE IF detail_level = "public" /\ IsPrivate(func.name)
    THEN Returns(JoinLines(<< <<"classDiagram">> >>))
  ELSE Returns(JoinLines(<< <<"classDiagram">> >> \o FunctionLines(func, include_decorators)))

\* Function.to_mermaid_class_diagram
Function_to_mermaid_class_diagram(self, detail_level, include_decorators) ==
  IF detail_level \notin allowed_levels THEN Unsupported("detail_level", detail_level)
  ELSE IF detail_level = "none" THEN Returns(JoinLines(<< <<"classDiagram">> >>))
  ELSE IF detail_level = "public" /\ IsPrivate(self.name)
    THEN Returns(JoinLines(<< <<"classDiagram">> >>))
  ELSE Returns(JoinLines(<< <<"classDiagram">> >> \o FunctionLines(self, include_decorators)))

\* mutant: "public" keeps every method
selected_methods_Unfiltered(methods, detail_level) ==
  IF detail_level = "none" THEN <<>> ELSE methods

\* the methods a class diagram lists
selected_methods(methods, detail_level) ==
  IF detail_level = "all" THEN methods
  ELSE IF detail_level = "public" THEN SelectSeq(methods, LAMBDA m : ~IsPrivate(m.name))
  ELSE <<>>

MethodLine(m) == <<"  +">> \o m.name \o <<"()">>

InheritLine(base, name) == base \o <<" <|-- ">> \o name

\* the lines of a class diagram after the header
ClassLines(cls, include_relations, detail_level) ==
  LET chosen == SortedByName(selected_methods(cls.methods, detail_level))
      bases == Sorted(cls.bases)
  IN << <<"class ">> \o cls.name \o <<" ", "{">> >>
       \o [i \in 1..Len(chosen) |-> MethodLine(chosen[i])]
       \o << <<"}">> >>
       \o (IF include_relations
             THEN [i \in 1..Len(bases) |-> InheritLine(bases[i], cls.name)]
             ELSE <<>>)

\* mermaid.render_class_diagram
render_class_diagram(cls, include_relations, detail_level) ==
  IF detail_level \notin allowed_levels THEN Unsupported("detail_level", detail_level)
  ELSE Returns(JoinLines(<< <<"classDiagram">> >> \o ClassLines(cls, include_relations, detail_level)))

\* Class.to_mermaid_class_diagram
Class_to_mermaid_class_diagram(self, include_relations, detail_level) ==
  IF detail_level \notin allowed_levels THEN Unsupported("detail_level", detail_level)
  ELSE Returns(JoinLines(<< <<"classDiagram">> >> \o ClassLines(self, include_relations, detail_level)))

\* the inheritance lines of the classes of one module, classes and bases
\* sorted
ModuleInheritLines(classes) ==
  Flatten([i \in 1..Len(SortedByName(classes)) |->
             LET cls == SortedByName(classes)[i]
                 bases == Sorted(cls.bases)
             IN [j \in 1..Len(bases) |-> InheritLine(bases[j], cls.name)]])

\* the top-level functions a module diagram shows
selected_functions(functions, function_detail_level) ==
  IF function_detail_level = "none" THEN <<>>
  ELSE IF function_detail_level = "all" THEN functions
  ELSE SelectSeq(functions, LAMBDA f : ~IsPrivate(f.name))

\* Module.to_mermaid_class_diagram
Module_to_mermaid_class_diagram(self, include_relations, class_detail_level, function_detail_level, include_decorators) ==
  IF class_detail_level \notin allowed_levels
    THEN Unsupported("class_detail_level", class_detail_level)
  ELSE IF function_detail_level \notin allowed_levels
    THEN Unsupported("function_detail_level", function_detail_level)
  ELSE
    LET classes == SortedByName(self.classes)
        funcs == SortedByName(selected_functions(self.functions, function_detail_level))
    IN Returns(JoinLines(
         << <<"classDiagram">> >>
           \o Flatten([i \in 1..Len(classes) |->
                         DropHeader(Class_to_mermaid_class_diagram(classes[i], FALSE,
                                                                   class_detail_level).val)])
           \o (IF include_relations THEN ModuleInheritLines(self.classes) ELSE <<>>)
           \o Flatten([i \in 1..Len(funcs) |->
                         DropHeader(Function_to_mermaid_class_diagram(funcs[i], function_detail_level,
                                                                      include_decorators).val)])))

\* mermaid.Style with its default colours; None is NoStyle
Style(name) ==
  [name |-> name, fill_color |-> <<"#eef6ff">>, stroke_color |-> <<"#2b6cb0">>,
   stroke_width |-> <<"1px">>, color |-> <<"#1a365d">>]

\* the argument style=None
NoStyle == [name |-> <<>>]

\* re.sub(r"[^A-Za-z0-9_]", "_", s)
Identifier(s) == [i \in 1..Len(s) |-> IF s[i] \in {DOT, SLASH, "\\"} THEN "_" ELSE s[i]]

\* Style.class_def
class_def(self) ==
  <<"classDef ">> \o self.name \o <<" fill:">> \o self.fill_color \o <<",stroke:">>
    \o self.stroke_color \o <<",stroke-width:1px,color:">> \o self.color \o <<";">>

\* Style.apply_style, called with at least one class name
apply_style(self, class_names) ==
  LET style_name == Identifier(self.name \o <<"_style">>)
  IN [i \in 1..Len(class_names) |-> <<"class ">> \o class_names[i] \o <<":::">> \o style_name]
       \o <<class_def(self)>>
       \o << <<"note for ">> \o class_names[1] \o <<" \"module: ">> \o self.name \o <<"\"">> >>

\* mermaid.render_module_diagram
\* style.name = getattr(module, "name", style.name), done when a style is
\* given and the module has classes: the Style object after the call
style_after(module, style) ==
  IF style # NoStyle /\ module.classes # <<>> THEN [style EXCEPT !.name = module.name] ELSE style

render_module_diagram(module, include_relations, class_detail_level, function_detail_level, include_decorators, style) ==
  IF class_detail_level \notin allowed_levels
    THEN Unsupported("class_detail_level", class_detail_level)
  ELSE IF function_detail_level \notin allowed_levels
    THEN Unsupported("function_detail_level", function_detail_level)
  ELSE
    LET classes == SortedByName(module.classes)
        funcs == SortedByName(selected_functions(module.functions, function_detail_level))
    IN Returns(JoinLines(
         << <<"classDiagram">> >>
           \o Flatten([i \in 1..Len(classes) |->
                         DropHeader(render_class_diagram(classes[i], FALSE, class_detail_level).val)])
           \o (IF include_relations THEN ModuleInheritLines(module.classes) ELSE <<>>)
           \o Flatten([i \in 1..Len(funcs) |->
                         DropHeader(render_function_diagram(funcs[i], function_detail_level,
                                                            include_decorators).val)])
           \o (IF style # NoStyle /\ module.classes # <<>>
                 THEN apply_style(style_after(module, style),
                                  Sorted([i \in 1..Len(module.classes) |-> module.classes[i].name]))
                 ELSE <<>>)))

\* the inheritance lines of a package: one for each pair of base and class
\* name, in the order met
PackageInheritLines(items) ==
  LET rels == Flatten([i \in 1..Len(items) |->
                 Flatten([c \in 1..Len(items[i].v.classes) |->
                            [b \in 1..Len(items[i].v.classes[c].bases) |->
                               <<items[i].v.classes[c].bases[b], items[i].v.classes[c].name>>]])])
      once == Dedup(rels, {})
  IN [i \in 1..Len(once) |-> InheritLine(once[i][1], once[i][2])]

\* Package.to_mermaid_class_diagram
Package_to_mermaid_class_diagram(self, include_class_relations, class_detail_level, function_detail_level, include_decorators) ==
  IF class_detail_level \notin allowed_levels
    THEN Unsupported("class_detail_level", class_detail_level)
  ELSE IF function_detail_level \notin allowed_levels
    THEN Unsupported("function_detail_level", function_detail_level)
  ELSE
    LET items == SortItems(self.modules)
    IN Returns(JoinLines(
         << <<"classDiagram">> >>
           \o Flatten([i \in 1..Len(items) |->
                         DropHeader(Module_to_mermaid_class_diagram(
                                      items[i].v, FALSE, class_detail_level,
                                      function_detail_level, include_decorators).val)])
           \o (IF include_class_relations THEN PackageInheritLines(items) ELSE <<>>)))

\* mermaid.render_package_diagram
render_package_diagram(package, include_class_relations, class_detail_level, function_detail_level, include_decorators, include_module_styling) ==
  IF class_detail_level \notin allowed_levels
    THEN Unsupported("class_detail_level", class_detail_level)
  ELSE IF function_detail_level \notin allowed_levels
    THEN Unsupported("function_detail_level", function_detail_level)
  ELSE
    LET items == SortItems(package.modules)
    IN Returns(JoinLines(
         << <<"classDiagram">> >>
           \o Flatten([i \in 1..Len(items) |->
                         DropHeader(render_module_diagram(
                                      items[i].v, FALSE, class_detail_level, function_detail_level,
                                      include_decorators,
                                      IF include_module_styling THEN Style(items[i].v.name)
                                      ELSE NoStyle).val)])
           \o (IF include_class_relations THEN PackageInheritLines(items) ELSE <<>>)))

(***************************************************************************)
(* viewer.py and crawler.render_tree.  A dictionary with fixed keys is a   *)
(* record, and a key it lacks is a field it does not have.                 *)
(***************************************************************************)
\* d.get(key, default)
Get(d, key, default) == IF key \in DOMAIN d THEN d[key] ELSE default

\* what stands for the name while the KeyError of entry['name'] travels up
KeyErrorMark == "<KeyError: 'name'>"

\* mutant: a missing name is read as empty
NameOf_Defaulted(entry) == Get(entry, "name", <<>>)

\* entry['name']
NameOf(entry) == IF "name" \in DOMAIN entry THEN entry.name ELSE <<KeyErrorMark>>

ModuleKey == <<"__module__">>

\* mutant: the module is put at the top of the tree, under the last part of
\* its name
_insert_into_tree_Flat(tree, path_parts, mod) == DictSet(tree, path_parts[Len(path_parts)], <<[k |-> ModuleKey, v |-> mod]>>)

\* _insert_into_tree: the nodes along path_parts are made where they are
\* missing, and the last one gets the module unless it has one
RECURSIVE _insert_into_tree(_, _, _)
_insert_into_tree(tree, path_parts, mod) ==
  LET part == Head(path_parts)
      cur == IF DictHas(tree, part) THEN DictGet(tree, part) ELSE <<>>
      filled == IF Len(path_parts) > 1 THEN _insert_into_tree(cur, Tail(path_parts), mod)
                ELSE DictSetDefault(cur, ModuleKey, mod)
  IN DictSet(tree, part, filled)

\* mutant: every entry is drawn as a non-last child
Branch_NeverLast(is_last) == "+"

\* the box-drawing corner, tee and bar are written L, + and |
Branch(is_last) == IF is_last THEN "L" ELSE "+"

\* the lines _draw_tree writes for the classes and functions of a module
ModuleTreeLines(mod, prefix, no_keys) ==
  LET classes == Get(mod, "classes", <<>>)
      funcs == Get(mod, "functions", <<>>)
      BasesText(c) == IF Get(c, "bases", <<>>) = <<>> THEN <<"object">>
                      ELSE JoinWith(Get(c, "bases", <<>>), <<", ">>)
      ClassTreeLines(c) ==
        LET methods == Get(c, "methods", <<>>)
        IN << prefix \o <<"+- class ">> \o NameOf(c) \o <<" (bases: ">> \o BasesText(c) \o <<")">> >>
             \o [j \in 1..Len(methods) |->
                   prefix \o <<"|  ", Branch(j = Len(methods) /\ no_keys), "- def ">>
                     \o NameOf(methods[j]) \o <<"()">>]
  IN Flatten([i \in 1..Len(classes) |-> ClassTreeLines(classes[i])])
       \o [i \in 1..Len(funcs) |->
             prefix \o <<Branch(i = Len(funcs) /\ no_keys), "- def ">> \o NameOf(funcs[i]) \o <<"()">>]

\* _draw_tree: the lines of a node
RECURSIVE _draw_tree(_, _)
_draw_tree(node, prefix) ==
  LET keys == Sorted(SelectSeq([i \in 1..Len(node) |-> node[i].k], LAMBDA k : k # ModuleKey))
      own == IF DictHas(node, ModuleKey) /\ DOMAIN DictGet(node, ModuleKey) # {}
               THEN ModuleTreeLines(DictGet(node, ModuleKey), prefix, keys = <<>>)
               ELSE <<>>
  IN own \o Flatten([i \in 1..Len(keys) |->
                       << prefix \o <<Branch(i = Len(keys)), "- ">> \o keys[i] >>
                         \o _draw_tree(DictGet(node, keys[i]),
                                       prefix \o <<IF i = Len(keys) THEN "   " ELSE "|  ">>)])

\* mutant: the tree is made anew for every module, so only the last one
\* is in it
TreeOf_LastOnly(tree, items) ==
  IF items = <<>> THEN tree
  ELSE _insert_into_tree(<<>>,
                         IF items[Len(items)].k # <<>> THEN SplitOn(items[Len(items)].k, DOT)
                         ELSE << <<"<root>">> >>,
                         items[Len(items)].v)

\* the tree of the modules of a dictionary
RECURSIVE TreeOf(_, _)
TreeOf(tree, items) ==
  IF items = <<>> THEN tree
  ELSE TreeOf(_insert_into_tree(tree,
                                IF Head(items).k # <<>> THEN SplitOn(Head(items).k, DOT)
                                ELSE << <<"<root>">> >>,
                                Head(items).v),
              Tail(items))

\* render_tree of viewer.py and of crawler.py: the same statements
render_tree(model_dict) ==
  IF "cls" \in DOMAIN model_dict
    THEN [exc |-> "AttributeError", val |-> <<>>]
  ELSE
    LET lines == _draw_tree(TreeOf(<<>>, Get(model_dict, "modules", <<>>)), <<>>)
        header == <<"Package roots: ">> \o JoinWith(Get(model_dict, "roots", <<>>), <<", ">>) \o <<NL>>
    IN IF \E i \in 1..Len(lines) : KeyErrorMark \in Range(lines[i])
         THEN [exc |-> "KeyError", val |-> <<>>]
         ELSE [exc |-> "none", val |-> header \o JoinLines(lines)]

\* crawler.render_tree: insert and draw are functions nested in it
crawler_render_tree(model_dict) ==
  LET RECURSIVE insert(_, _, _)
      insert(tree, path_parts, mod) ==
        LET part == Head(path_parts)
            cur == IF DictHas(tree, part) THEN DictGet(tree, part) ELSE <<>>
        IN DictSet(tree, part,
                   IF Len(path_parts) = 1 THEN DictSetDefault(cur, <<"__module__">>, mod)
                   ELSE insert(cur, Tail(path_parts), mod))
      RECURSIVE build(_, _)
      build(tree, items) ==
        IF items = <<>> THEN tree
        ELSE build(insert(tree,
                          IF Head(items).k # <<>> THEN SplitOn(Head(items).k, DOT)
                          ELSE << <<"<root>">> >>,
                          Head(items).v),
                   Tail(items))
      name(entry) == IF "name" \in DOMAIN entry THEN entry.name ELSE <<KeyErrorMark>>
      RECURSIVE draw(_, _)
      draw(node, prefix) ==
        LET keys == Sorted(SelectSeq([i \in 1..Len(node) |-> node[i].k],
                                     LAMBDA k : k # <<"__module__">>))
            mod == IF DictHas(node, <<"__module__">>) THEN DictGet(node, <<"__module__">>)
                   ELSE <<>>
            classes == IF "classes" \in DOMAIN mod THEN mod.classes ELSE <<>>
            funcs == IF "functions" \in DOMAIN mod THEN mod.functions ELSE <<>>
            bases(c) == IF "bases" \in DOMAIN c /\ c.bases # <<>> THEN JoinWith(c.bases, <<", ">>)
                        ELSE <<"object">>
            methods(c) == IF "methods" \in DOMAIN c THEN c.methods ELSE <<>>
            class_lines(c) ==
              << prefix \o <<"+- class ">> \o name(c) \o <<" (bases: ">> \o bases(c) \o <<")">> >>
                \o [j \in 1..Len(methods(c)) |->
                      prefix \o <<"|  ", IF j = Len(methods(c)) /\ keys = <<>> THEN "L" ELSE "+",
                                  "- def ">> \o name(methods(c)[j]) \o <<"()">>]
        IN Flatten([i \in 1..Len(classes) |-> class_lines(classes[i])])
             \o [i \in 1..Len(funcs) |->
                   prefix \o <<IF i = Len(funcs) /\ keys = <<>> THEN "L" ELSE "+", "- def ">>
                     \o name(funcs[i]) \o <<"()">>]
             \o Flatten([i \in 1..Len(keys) |->
                           << prefix \o <<IF i = Len(keys) THEN "L" ELSE "+", "- ">> \o keys[i] >>
                             \o draw(DictGet(node, keys[i]),
                                     prefix \o <<IF i = Len(keys) THEN "   " ELSE "|  ">>)])
  IN IF "cls" \in DOMAIN model_dict THEN [exc |-> "AttributeError", val |-> <<>>]
     ELSE LET lines == draw(build(<<>>, IF "modules" \in DOMAIN model_dict THEN model_dict.modules
                                        ELSE <<>>),
                            <<>>)
              roots == IF "roots" \in DOMAIN model_dict THEN model_dict.roots ELSE <<>>
          IN IF \E i \in 1..Len(lines) : KeyErrorMark \in Range(lines[i])
               THEN [exc |-> "KeyError", val |-> <<>>]
               ELSE [exc |-> "none",
                     val |-> <<"Package roots: ">> \o JoinWith(roots, <<", ">>) \o <<NL>>
                               \o JoinLines(lines)]

(***************************************************************************)
(* The state machine: one call of an entry point on a file system          *)
(***************************************************************************)
\* the root arguments: "/", "/a", "/a/a", "a" (relative), a missing
\* directory, a path that may be a file, the locked directory
RootArgs ==
  { <<SLASH>>,
    <<SLASH, "a">>,
    <<SLASH, "a", SLASH, "a">>,
    <<"a">>,
    <<SLASH, "zz">>,
    <<SLASH>> \o DirA \o <<SLASH>> \o XTxt,
    <<SLASH>> \o DirPriv }

\* the source files that exist
PythonFiles == {f \in Files : IsPythonFile(f[Len(f)])}

\* the file arguments: every source file by its absolute path and, when it
\* lies under the working directory, by its path relative to it
AbsFileArgs == {PathStr([abs |-> TRUE, parts |-> f]) : f \in PythonFiles}

FileArgs ==
  AbsFileArgs
    \cup {PathStr([abs |-> FALSE, parts |-> Drop(f, Len(Cwd))]) : f \in {g \in PythonFiles : IsPrefix(Cwd, g)}}

\* the calls that never open a file are made on file systems of valid files
AllValid == \A f \in Files : fs[f] = "valid"

\* root and file are the arguments as given, top is the directory the walk
\* starts from, listing the order in which _discover_roots lists root
Args(root, top, file, listing) == [root |-> root, top |-> top, file |-> file, listing |-> listing]

NoArgs == Args(<<>>, <<>>, <<>>, <<>>)

FileSystems ==
  UNION {[S -> Contents] : S \in {T \in SUBSET Universe : Cardinality(T) <= MaxFiles}}

Init ==
  /\ fs \in {g \in FileSystems :
               /\ Cardinality({f \in DOMAIN g : g[f] # "valid"}) <= MaxBad
               /\ \A f \in DOMAIN g : g[f] # "valid" => IsPythonFile(f[Len(f)])}
  /\ pc = "start"
  /\ op = "none"
  /\ args = NoArgs
  /\ stack = <<>>
  /\ queue = <<>>
  /\ yielded = <<>>
  /\ rootList = <<>>
  /\ modules = <<>>
  /\ ret = [exc |-> "none", val |-> <<>>]
  /\ exc = "none"
  /\ heap = <<>>
  /\ objs = <<>>

\* crawl_package: abs_root = Path(root_path).absolute()
CrawlStart ==
  /\ pc = "start"
  /\ \E r \in RootArgs :
       LET abs_root == PathStr(PathAbsolute(PathOf(r)))
       IN /\ args' = Args(r, abs_root, <<>>, <<>>)
          /\ stack' = <<abs_root>>
  /\ op' = "crawl"
  /\ pc' = "walk"
  /\ UNCHANGED <<fs, queue, yielded, rootList, modules, ret, exc, heap, objs>>

\* _iter_python_files(root) called on its own
IterStart ==
  /\ pc = "start"
  /\ AllValid
  /\ \E r \in RootArgs :
       /\ args' = Args(r, r, <<>>, <<>>)
       /\ stack' = <<r>>
  /\ op' = "iter"
  /\ pc' = "walk"
  /\ UNCHANGED <<fs, queue, yielded, rootList, modules, ret, exc, heap, objs>>

\* os.walk enters the next directory; a directory that cannot be listed is
\* passed over in silence
WalkDir ==
  /\ pc = "walk"
  /\ queue = <<>>
  /\ stack # <<>>
  /\ LET top == Head(stack)
     IN IF ListError(top) # "none"
          THEN /\ stack' = Tail(stack)
               /\ UNCHANGED <<queue, rootList>>
          ELSE \E listing \in Orders(Children(AbsSegs(top))) :
                 /\ queue' = WalkFiles(top, listing)
                 /\ stack' = WalkDirs(top, listing) \o Tail(stack)
                 /\ rootList' = IF top = args.top THEN listing ELSE rootList
  /\ UNCHANGED <<fs, pc, op, args, yielded, modules, ret, exc, heap, objs>>

\* mutant: a module whose name is taken is dropped
CrawlStore_FirstWins(mods, mod) ==
  IF mod.none \/ DictHas(mods, mod.val.name) THEN mods
  ELSE Append(mods, [k |-> mod.val.name, v |-> mod.val])

\* the body of the loop of crawl_package once the module is parsed
CrawlStore(mods, mod) ==
  IF mod.none THEN mods ELSE DictSet(mods, mod.val.name, mod.val)

\* one round of the loop of crawl_package
CrawlFile ==
  /\ pc = "walk"
  /\ op = "crawl"
  /\ queue # <<>>
  /\ LET file_path == Head(queue)
         mod == _parse_module(file_path, CrawlName(args.top, file_path))
     IN /\ yielded' = Append(yielded, file_path)
        /\ queue' = Tail(queue)
        /\ IF mod.exc # "none"
             THEN pc' = "raised" /\ exc' = mod.exc /\ UNCHANGED modules
             ELSE modules' = CrawlStore(modules, mod) /\ UNCHANGED <<pc, exc>>
  /\ UNCHANGED <<fs, op, args, stack, rootList, ret, heap, objs>>

\* the end of crawl_package: the roots, the Package and its dictionary
CrawlFinish ==
  /\ pc = "walk"
  /\ op = "crawl"
  /\ queue = <<>>
  /\ stack = <<>>
  /\ LET r == _discover_roots(args.top, rootList)
     IN IF r.exc # "none"
          THEN pc' = "raised" /\ exc' = r.exc /\ UNCHANGED ret
          ELSE /\ pc' = "done"
               /\ ret' = [exc |-> "none",
                          val |-> Package_to_dict(Package(PosixPath(args.top), r.val, modules))]
               /\ UNCHANGED exc
  /\ UNCHANGED <<fs, op, args, stack, queue, yielded, rootList, modules, heap, objs>>

\* the consumer of _iter_python_files takes the next path
IterYield ==
  /\ pc = "walk"
  /\ op = "iter"
  /\ queue # <<>>
  /\ yielded' = Append(yielded, Head(queue))
  /\ queue' = Tail(queue)
  /\ UNCHANGED <<fs, pc, op, args, stack, rootList, modules, ret, exc, heap, objs>>

IterFinish ==
  /\ pc = "walk"
  /\ op = "iter"
  /\ queue = <<>>
  /\ stack = <<>>
  /\ pc' = "done"
  /\ ret' = [exc |-> "none", val |-> yielded]
  /\ UNCHANGED <<fs, op, args, stack, queue, yielded, rootList, modules, exc, heap, objs>>

\* a call that returns in one step
Return(name, a, r) ==
  /\ op' = name
  /\ args' = a
  /\ ret' = r
  /\ exc' = r.exc
  /\ pc' = IF r.exc = "none" THEN "done" ELSE "raised"
  /\ UNCHANGED <<fs, stack, queue, yielded, rootList, modules, heap, objs>>

\* the modules the tests of Package build by hand: one with a class of two
\* methods and two bases, two functions and two imports; one with a single
\* function; one with imports only, listed as written
CoreModule ==
  Module(<<"b">>, <<SLASH, "b", DOT, "py">>,
         <<Class(<<"A">>, 60, << <<"B">>, <<"B">> >>,
                 <<Function(<<"m">>, 66, <<>>), Function(<<"_", "p">>, 70, << <<"a">> >>)>>)>>,
         <<Function(<<"g">>, 44, <<>>), Function(<<"f">>, 48, <<>>)>>,
         << <<"a">>, <<"mod">> >>)

UtilsModule ==
  Module(<<"a">>, <<SLASH, "a", DOT, "py">>, <<>>, <<Function(<<"_", "h">>, 97, <<>>)>>, <<>>)

OnlyImportsModule ==
  Module(<<"a", DOT, "b">>, <<SLASH, "a", SLASH, "b", DOT, "py">>, <<>>, <<>>,
         << <<"mod">>, <<"x">>, <<"b">> >>)

SampleModules == {CoreModule, UtilsModule, OnlyImportsModule}

\* {m.name: m for m in [...]} for every choice and order of the modules
ModuleDicts ==
  UNION {{[i \in 1..Len(o) |-> [k |-> o[i].name, v |-> o[i]]] : o \in Orders(S)} :
           S \in {T \in SUBSET SampleModules : Cardinality(T) <= MaxModules}}

Packages ==
  {Package(PyStr(<<SLASH, "a">>), IF d = <<>> THEN <<>> ELSE << <<"a">> >>, d) : d \in ModuleDicts}

\* the calls on a Package built by hand touch no file
NoFiles == Files = {}

CallBuildEdges ==
  /\ pc = "start"
  /\ NoFiles
  /\ \E P \in Packages :
       Return("build_edges", [pkg |-> P], [exc |-> "none", val |-> Package_build_edges(P)])

CallToDict ==
  /\ pc = "start"
  /\ NoFiles
  /\ \E P \in Packages :
       Return("to_dict", [pkg |-> P], [exc |-> "none", val |-> Package_to_dict(P)])

\* to_json(package.to_dict()) for a Package built by hand
CallToJson ==
  /\ pc = "start"
  /\ NoFiles
  /\ \E P \in Packages :
       LET d == DictValue(Package_to_dict(P))
       IN Return("to_json", [value |-> d, of |-> "Package"], to_json(d))

\* to_json(crawl_package(path)), as cli.main does for --format json
CrawlToJson ==
  /\ pc = "done"
  /\ op = "crawl"
  /\ LET d == DictValue(ret.val)
     IN Return("to_json", [value |-> d, of |-> "crawl"], to_json(d))

\* the detail levels the callers pass: the three that exist and two that
\* do not
Levels == {"all", "public", "none", "ALL", "private"}

SampleFunctions == {Function(<<"f">>, 48, <<>>), Function(<<"_", "p">>, 70, << <<"a">> >>)}

SampleClasses == {CoreModule.classes[1], Class(<<"B">>, 2, <<>>, <<>>)}

Renderers == {"mermaid", "method"}

CallRenderFunction ==
  /\ pc = "start"
  /\ NoFiles
  /\ \E f \in SampleFunctions, level \in Levels, decorators \in BOOLEAN, impl \in Renderers :
       Return("render",
              [kind |-> "function", impl |-> impl, obj |-> f, levels |-> <<level>>,
               flags |-> <<decorators>>],
              IF impl = "mermaid" THEN render_function_diagram(f, level, decorators)
              ELSE Function_to_mermaid_class_diagram(f, level, decorators))

CallRenderClass ==
  /\ pc = "start"
  /\ NoFiles
  /\ \E c \in SampleClasses, level \in Levels, relations \in BOOLEAN, impl \in Renderers :
       Return("render",
              [kind |-> "class", impl |-> impl, obj |-> c, levels |-> <<level>>,
               flags |-> <<relations>>],
              IF impl = "mermaid" THEN render_class_diagram(c, relations, level)
              ELSE Class_to_mermaid_class_diagram(c, relations, level))

CallRenderModule ==
  /\ pc = "start"
  /\ NoFiles
  /\ \E m \in SampleModules, cl \in Levels, fl \in Levels, relations \in BOOLEAN,
        decorators \in BOOLEAN, styled \in BOOLEAN, impl \in Renderers :
       /\ impl = "method" => ~styled
       /\ LET style == IF styled THEN Style(<<"<None>">>) ELSE NoStyle
              r == IF impl = "mermaid"
                     THEN render_module_diagram(m, relations, cl, fl, decorators, style)
                     ELSE Module_to_mermaid_class_diagram(m, relations, cl, fl, decorators)
          IN Return("render",
                    [kind |-> "module", impl |-> impl, obj |-> m, levels |-> <<cl, fl>>,
                     flags |-> <<relations, decorators, styled>>, style |-> style],
                    [exc |-> r.exc, msg |-> r.msg, val |-> r.val,
                     style |-> IF r.exc = "none" THEN style_after(m, style) ELSE style])

CallRenderPackage ==
  /\ pc = "start"
  /\ NoFiles
  /\ \E P \in Packages, cl \in Levels, fl \in Levels, relations \in BOOLEAN,
        decorators \in BOOLEAN, styled \in BOOLEAN, impl \in Renderers :
       /\ impl = "method" => ~styled
       /\ Return("render",
                 [kind |-> "package", impl |-> impl, obj |-> P, levels |-> <<cl, fl>>,
                  flags |-> <<relations, decorators, styled>>],
                 IF impl = "mermaid"
                   THEN render_package_diagram(P, relations, cl, fl, decorators, styled)
                   ELSE Package_to_mermaid_class_diagram(P, relations, cl, fl, decorators))

\* del rec[key]
Without(rec, key) == [f \in DOMAIN rec \ {key} |-> rec[f]]

\* the keys of a serialized model that say what to draw, by the level of the
\* dictionary they are in
KeysRead(level) ==
  IF level = "top" THEN {"modules", "roots"}
  ELSE IF level = "module" THEN {"classes", "functions", "name"}
  ELSE IF level = "class" THEN {"bases", "methods", "name"}
  ELSE {"name"}

Place(level, key, m, c, j) == [level |-> level, key |-> key, m |-> m, c |-> c, j |-> j]

\* every place of a dictionary where one key a renderer reads can be missing:
\* module m, its class c, its function or the method j
Places(d) ==
  {Place("top", key, 0, 0, 0) : key \in KeysRead("top")}
    \cup {Place("module", key, m, 0, 0) : key \in KeysRead("module"), m \in DOMAIN d.modules}
    \cup UNION {{Place("class", key, m, c, 0) : key \in KeysRead("class"),
                                                c \in DOMAIN d.modules[m].v.classes} :
                  m \in DOMAIN d.modules}
    \cup UNION {UNION {{Place("method", "name", m, c, j) :
                          j \in DOMAIN d.modules[m].v.classes[c].methods} :
                         c \in DOMAIN d.modules[m].v.classes} :
                  m \in DOMAIN d.modules}
    \cup UNION {{Place("function", "name", m, 0, j) : j \in DOMAIN d.modules[m].v.functions} :
                  m \in DOMAIN d.modules}

\* the dictionary with the key of one place deleted
Malformed(d, at) ==
  IF at.level = "top" THEN Without(d, at.key)
  ELSE IF at.level = "module" THEN [d EXCEPT !.modules[at.m].v = Without(@, at.key)]
  ELSE IF at.level = "class"
    THEN [d EXCEPT !.modules[at.m].v.classes[at.c] = Without(@, at.key)]
  ELSE IF at.level = "method"
    THEN [d EXCEPT !.modules[at.m].v.classes[at.c].methods[at.j] = Without(@, at.key)]
  ELSE [d EXCEPT !.modules[at.m].v.functions[at.j] = Without(@, at.key)]

NoPlace == Place("none", "none", 0, 0, 0)

TreeRenderers == {"viewer", "crawler"}

\* a module of a class and nothing else, below the module b; a module whose
\* dotted name is empty
ClassOnlyModule ==
  Module(<<"b", DOT, "a">>, <<SLASH, "b", SLASH, "a", DOT, "py">>,
         <<Class(<<"B">>, 2, <<>>, <<Function(<<"x">>, 3, <<>>)>>)>>, <<>>, <<>>)

RootModule == Module(<<>>, <<SLASH, "__init__", DOT, "py">>, <<>>, <<Function(<<"f">>, 1, <<>>)>>, <<>>)

\* the packages the tree is drawn for: those above, and packages of two roots
TreePackages ==
  Packages
    \cup UNION {{Package(PyStr(<<SLASH>>), << <<"a">>, <<"b">> >>,
                         [i \in 1..Len(o) |-> [k |-> o[i].name, v |-> o[i]]]) : o \in Orders(S)} :
                 S \in {T \in SUBSET {CoreModule, ClassOnlyModule, RootModule} :
                          Cardinality(T) \in 1..MaxModules}}

\* render_tree(package) on the aggregate itself
CallRenderTreeOfPackage ==
  /\ pc = "start"
  /\ NoFiles
  /\ \E P \in TreePackages, impl \in TreeRenderers :
       Return("render_tree", [impl |-> impl, form |-> "object", pkg |-> P, value |-> P, at |-> NoPlace],
              IF impl = "viewer" THEN render_tree(P) ELSE crawler_render_tree(P))

\* render_tree(package.to_dict())
CallRenderTreeOfDict ==
  /\ pc = "start"
  /\ NoFiles
  /\ \E P \in TreePackages, impl \in TreeRenderers :
       LET d == Package_to_dict(P)
       IN Return("render_tree", [impl |-> impl, form |-> "dict", pkg |-> P, value |-> d, at |-> NoPlace],
                 IF impl = "viewer" THEN render_tree(d) ELSE crawler_render_tree(d))

\* render_tree of a dictionary that lacks one key
CallRenderTreeOfMalformed ==
  /\ pc = "start"
  /\ NoFiles
  /\ \E P \in TreePackages, impl \in TreeRenderers :
       \E at \in Places(Package_to_dict(P)) :
         LET d == Malformed(Package_to_dict(P), at)
         IN Return("render_tree", [impl |-> impl, form |-> "malformed", pkg |-> P, value |-> d, at |-> at],
                   IF impl = "viewer" THEN render_tree(d) ELSE crawler_render_tree(d))

\* the sequence fields of the dataclasses: each is field(default_factory=list)
SequenceFields(cls) ==
  IF cls = "Function" THEN <<"decorators">>
  ELSE IF cls = "Class" THEN <<"bases", "methods">>
  ELSE <<"classes", "functions", "imports">>

\* mutant: one list per field, made once and given to every instance
default_factory_Shared(h, k) == k

\* default_factory=list for the k-th sequence field: a list that is not in
\* the heap yet
default_factory(h, k) == Len(h) + k

\* the heap once it holds the lists of refs
Allocate(h, refs) ==
  LET top == CHOOSE n \in Range(refs) \cup {Len(h)} : \A x \in Range(refs) \cup {Len(h)} : x <= n
  IN [i \in 1..top |-> IF i <= Len(h) THEN h[i] ELSE <<>>]

\* Function(name, lineno), Class(name, lineno) or Module(name, path): the
\* generated __init__ calls the factory of every field that was not passed
Construct ==
  /\ pc \in {"start", "objects"}
  /\ NoFiles
  /\ Len(objs) < MaxInstances
  /\ \E cls \in {"Function", "Class", "Module"} :
       LET fields == SequenceFields(cls)
           refs == [k \in 1..Len(fields) |-> default_factory(heap, k)]
       IN /\ objs' = Append(objs, [cls |-> cls, refs |-> refs])
          /\ heap' = Allocate(heap, refs)
  /\ pc' = "objects"
  /\ op' = "instances"
  /\ UNCHANGED <<fs, args, stack, queue, yielded, rootList, modules, ret, exc>>

\* instance.field.append(x)
AppendToField ==
  /\ pc = "objects"
  /\ SumLen(heap) < MaxAppends
  /\ \E i \in DOMAIN objs : \E k \in DOMAIN objs[i].refs :
       heap' = [heap EXCEPT ![objs[i].refs[k]] = Append(@, "x")]
  /\ UNCHANGED <<fs, pc, op, args, stack, queue, yielded, rootList, modules, ret, exc, objs>>

\* Package(root_path, roots, modules) with the list of roots the caller made
ConstructPackage ==
  /\ pc \in {"start", "objects"}
  /\ NoFiles
  /\ Len(objs) < MaxInstances
  /\ objs' = Append(objs, [cls |-> "Package", refs |-> <<Len(heap) + 1>>])
  /\ heap' = Append(heap, <<>>)
  /\ pc' = "objects"
  /\ op' = "instances"
  /\ UNCHANGED <<fs, args, stack, queue, yielded, rootList, modules, ret, exc>>

\* the list fields whose value to_dict builds with a comprehension; the
\* value of every other one is the attribute itself
Comprehended(cls) ==
  IF cls = "Class" THEN {"methods"}
  ELSE IF cls = "Module" THEN {"classes", "functions"}
  ELSE {}

ListFields(cls) == IF cls = "Package" THEN <<"roots">> ELSE SequenceFields(cls)

\* the lists the dictionary of to_dict refers to, one per list field: the
\* list of the instance, or a new list at the end of the heap
to_dict_refs(o, h) ==
  LET fields == ListFields(o.cls)
      fresh(k) == Cardinality({j \in 1..k : fields[j] \in Comprehended(o.cls)})
  IN [k \in 1..Len(fields) |->
        IF fields[k] \in Comprehended(o.cls) THEN Len(h) + fresh(k) ELSE o.refs[k]]

\* d = instance.to_dict(): fields holds the values of the instance at the call
InstanceToDict ==
  /\ pc = "objects"
  /\ \E i \in DOMAIN objs :
       LET refs == to_dict_refs(objs[i], heap)
           made == SelectSeq([k \in 1..Len(refs) |-> k], LAMBDA k : refs[k] > Len(heap))
       IN /\ heap' = heap \o [n \in 1..Len(made) |-> heap[objs[i].refs[made[n]]]]
          /\ args' = [of |-> i]
          /\ ret' = [exc |-> "none", val |-> [refs |-> refs],
                     fields |-> [k \in 1..Len(refs) |-> heap[objs[i].refs[k]]]]
  /\ pc' = "dict"
  /\ op' = "instance_to_dict"
  /\ UNCHANGED <<fs, stack, queue, yielded, rootList, modules, exc, objs>>

\* d[key].append(x) on a list of the returned dictionary
MutateDict ==
  /\ pc = "dict"
  /\ \E k \in DOMAIN ret.val.refs :
       /\ heap' = [heap EXCEPT ![ret.val.refs[k]] = Append(@, "x")]
       /\ args' = [of |-> args.of, key |-> k]
  /\ pc' = "mutated"
  /\ UNCHANGED <<fs, op, stack, queue, yielded, rootList, modules, ret, exc, objs>>

CallFromFile ==
  /\ pc = "start"
  /\ \E f \in FileArgs, r \in RootArgs :
       Return("from_file", Args(r, <<>>, f, <<>>), from_file(f, r))

CallConvert ==
  /\ pc = "start"
  /\ AllValid
  /\ \E f \in FileArgs, r \in RootArgs \cup {NoneRoot} :
       Return("convert_path_to_dot", Args(r, <<>>, f, <<>>),
              convert_path_to_dot(r, f))

CallModuleName ==
  /\ pc = "start"
  /\ AllValid
  /\ \E f \in AbsFileArgs, r \in {x \in RootArgs : IsAbs(x)} :
       Return("_module_name_from_path", Args(r, <<>>, f, <<>>),
              [exc |-> "none", val |-> _module_name_from_path(r, f)])

CallDiscover ==
  /\ pc = "start"
  /\ AllValid
  /\ \E r \in RootArgs :
       \E listing \in (IF ListError(r) = "none" THEN Orders(Children(AbsSegs(r))) ELSE {<<>>}) :
         Return("_discover_roots", Args(r, <<>>, <<>>, listing),
                _discover_roots(r, listing))

Next ==
  \/ CrawlStart
  \/ IterStart
  \/ WalkDir
  \/ CrawlFile
  \/ CrawlFinish
  \/ IterYield
  \/ IterFinish
  \/ CallFromFile
  \/ CallConvert
  \/ CallModuleName
  \/ CallDiscover
  \/ CallBuildEdges
  \/ CallToDict
  \/ CallToJson
  \/ CrawlToJson
  \/ CallRenderFunction
  \/ CallRenderClass
  \/ CallRenderModule
  \/ CallRenderPackage
  \/ CallRenderTreeOfPackage
  \/ CallRenderTreeOfDict
  \/ CallRenderTreeOfMalformed
  \/ Construct
  \/ AppendToField
  \/ ConstructPackage
  \/ InstanceToDict
  \/ MutateDict

Spec == Init /\ [][Next]_vars

(***************************************************************************)
(* Properties                                                              *)
(***************************************************************************)
\* the file does not parse: unbalanced syntax or undecodable bytes
Failing(path) == ParseError(path) \in {"SyntaxError", "UnicodeDecodeError"}

Parsed(path) == ParseError(path) = "none"

Crawling == op = "crawl"

\* two dicts hold the same modules under the same names, whatever their
\* order
ItemView(d) == {<<d[i].k, d[i].v.name, d[i].v.path, d[i].v.imports>> : i \in DOMAIN d}

SameItems(d, e) == ItemView(d) = ItemView(e) /\ Len(d) = Len(e)

C1_State ==
  (Crawling /\ \E i \in DOMAIN yielded : Failing(yielded[i])) =>
    /\ pc # "raised"
    /\ \A i \in DOMAIN yielded :
         Parsed(yielded[i]) => DictHas(modules, CrawlName(args.top, yielded[i]))
    /\ \A j \in DOMAIN modules :
         \E i \in DOMAIN yielded : Parsed(yielded[i]) /\ modules[j].v.path = OsAbspath(yielded[i])
    /\ pc = "done" => SameItems(ret.val.modules, modules)

C1_Step ==
  (Crawling /\ queue # <<>> /\ Failing(Head(queue)) /\ queue' # queue) =>
    modules' = modules /\ pc' = pc

\* C1: in a crawl where some yielded file fails to parse (syntax error or
\* undecodable bytes) nothing is raised; modules holds an entry for the name of every parsed file, every
\* entry was built from a parsed file, and the round that processes a
\* failing file leaves modules as it was.
C1_ParseFailureSkip == []C1_State /\ [][C1_Step]_vars

C1_Witness ==
  /\ Crawling
  /\ pc = "done"
  /\ modules # <<>>
  /\ \E i, j \in DOMAIN yielded : i < j /\ Parsed(yielded[i]) /\ Failing(yielded[j])

\* C2: from_file on a file that fails to parse raises nothing and returns
\* None, and it returns a Module only when the file parses.
C2_FromFileNoneOnFailure ==
  op = "from_file" =>
    /\ Failing(args.file) => exc = "none" /\ ret.none
    /\ (exc = "none" /\ ~ret.none) => Parsed(args.file)

\* the last parsed file, in the order yielded, that resolved to name k
IsLastParsed(i, k) ==
  /\ Parsed(yielded[i])
  /\ CrawlName(args.top, yielded[i]) = k
  /\ \A j \in DOMAIN yielded :
       (j > i /\ Parsed(yielded[j])) => CrawlName(args.top, yielded[j]) # k

LastWriteWins(d) ==
  /\ \A i, j \in DOMAIN d : d[i].k = d[j].k => i = j
  /\ \A j \in DOMAIN d :
       /\ d[j].v.name = d[j].k
       /\ \E i \in DOMAIN yielded : IsLastParsed(i, d[j].k) /\ d[j].v.path = OsAbspath(yielded[i])
  /\ \A i \in DOMAIN yielded :
       Parsed(yielded[i]) => \E j \in DOMAIN d : d[j].k = CrawlName(args.top, yielded[i])

\* C3: at every point of a crawl, and in the dictionary it returns, modules
\* holds one Module per dotted name, and under each name the Module of the
\* last parsed file, in traversal order, that resolved to that name.
C3_LastWriteWins ==
  Crawling =>
    /\ LastWriteWins(modules)
    /\ pc = "done" => LastWriteWins(ret.val.modules)

C3_Witness ==
  /\ Crawling
  /\ pc = "done"
  /\ \E i, j \in DOMAIN yielded :
       /\ i < j
       /\ Parsed(yielded[i])
       /\ Parsed(yielded[j])
       /\ CrawlName(args.top, yielded[i]) = CrawlName(args.top, yielded[j])

\* the name without its extension, the extension being the last dot and
\* the characters after it
StripExt(name) ==
  IF Len(name) > Len(<<DOT, "py">>) /\ name[Len(name) - 1] = DOT THEN SubSeq(name, 1, Len(name) - 2) ELSE name

\* the dotted name of a list of segments: extension stripped, "__init__"
\* segments dropped, the rest joined by "."
DottedOf(segs) ==
  IF segs = <<>> THEN <<>>
  ELSE JoinWith(SelectSeq(SubSeq(segs, 1, Len(segs) - 1) \o <<StripExt(segs[Len(segs)])>>,
                          LAMBDA x : x # <<"__init__">>),
                <<DOT>>)

HasRoot == args.root # NoneRoot

UnderRoot ==
  /\ IsPrefix(AbsSegs(args.root), AbsSegs(args.file))
  /\ AbsSegs(args.root) # AbsSegs(args.file)

\* C4: for a file under root both module-name functions return the segments
\* of the path relative to root, extension stripped, "__init__" segments
\* dropped, joined by ".".
C4_ModuleNameFromPath ==
  (op \in {"_module_name_from_path", "convert_path_to_dot"} /\ HasRoot /\ UnderRoot) =>
    /\ exc = "none"
    /\ ret.val = DottedOf(Drop(AbsSegs(args.file), Len(AbsSegs(args.root))))

\* the same of Module.convert_path_to_dot alone
ConvertPathToDotUnderRoot ==
  (op = "convert_path_to_dot" /\ HasRoot /\ UnderRoot) =>
    /\ exc = "none"
    /\ ret.val = DottedOf(Drop(AbsSegs(args.file), Len(AbsSegs(args.root))))

ConvertPathToDotWitness ==
  /\ op = "convert_path_to_dot"
  /\ HasRoot
  /\ UnderRoot
  /\ Len(AbsSegs(args.file)) >= Len(AbsSegs(args.root)) + 2

\* s without the prefix p, when it starts with p
StripPrefix(s, p) == IF StartsWith(s, p) THEN Drop(s, Len(p)) ELSE s

\* the package segments a file path ends with: its directory and its stem,
\* the directory alone for an "__init__" file
Trailing(segs) ==
  IF Len(segs) < 2 THEN DottedOf(segs)
  ELSE DottedOf(SubSeq(segs, Len(segs) - 1, Len(segs)))

\* C5: for a file that is not under root, convert_path_to_dot strips root
\* from the file path only where the path starts with it, and the dotted
\* name ends with the trailing package segments of the file.
C5_FallbackPrefixStrip ==
  (op = "convert_path_to_dot" /\ HasRoot /\ ~IsPrefix(AbsSegs(args.root), AbsSegs(args.file))) =>
    LET file_s == <<SLASH>> \o JoinWith(AbsSegs(args.file), <<SLASH>>)
        root_s == <<SLASH>> \o JoinWith(AbsSegs(args.root), <<SLASH>>)
    IN /\ exc = "none"
       /\ ret.val = DottedOf(Segments(StripPrefix(file_s, root_s)))
       /\ EndsWith(ret.val, Trailing(AbsSegs(args.file)))

\* C6: every Module that crawl stores and every Module that from_file
\* returns has a non-empty dotted name.
C6_NonEmptyName ==
  /\ Crawling => \A j \in DOMAIN modules : modules[j].k # <<>> /\ modules[j].v.name # <<>>
  /\ (op = "from_file" /\ exc = "none" /\ ~ret.none) => ret.val.name # <<>>

\* a directory that holds an "__init__.py"
PackageDirAt(segs) == segs \in Dirs /\ Append(segs, InitPy) \in Files

RootSegs == AbsSegs(args.root)

RootName == IF RootSegs = <<>> THEN <<>> ELSE RootSegs[Len(RootSegs)]

\* the immediate children of root that are package directories, as listed
Kids == SelectSeq(args.listing, LAMBDA n : PackageDirAt(Append(RootSegs, n)))

Count(seq, x) == Cardinality({i \in DOMAIN seq : seq[i] = x})

Discovered == op = "_discover_roots" /\ exc = "none"

\* root's name when root is a package, then the children in listing order,
\* a child that repeats root's name left out
RootsInOrder ==
  IF PackageDirAt(RootSegs)
    THEN <<RootName>> \o SelectSeq(Kids, LAMBDA n : n # RootName)
    ELSE Kids

\* C7 as stated: root's own name comes first if and only if root is a
\* package directory and is absent when root has no package marker; the
\* qualifying children follow in listing order, each exactly once.
C7_DiscoverRootsAsStated ==
  Discovered =>
    /\ PackageDirAt(RootSegs) <=> (ret.val # <<>> /\ ret.val[1] = RootName)
    /\ ~PackageDirAt(RootSegs) => RootName \notin Range(ret.val)
    /\ ret.val = RootsInOrder
    /\ \A n \in Range(Kids) : Count(ret.val, n) = 1

\* C7 amended: root's own name comes first if root is a package directory;
\* when root has no package marker its name appears only as the name of a
\* qualifying child; the qualifying children follow in listing order, each
\* exactly once.
C7_DiscoverRoots ==
  Discovered =>
    /\ PackageDirAt(RootSegs) => (ret.val # <<>> /\ ret.val[1] = RootName)
    /\ ~PackageDirAt(RootSegs) => (RootName \in Range(ret.val) <=> RootName \in Range(Kids))
    /\ ret.val = RootsInOrder
    /\ \A n \in Range(Kids) : Count(ret.val, n) = 1

C7_Witness ==
  /\ Discovered
  /\ PackageDirAt(RootSegs)
  /\ \E n \in Range(Kids) : n # RootName /\ ret.val = <<RootName, n>>

\* C8: a crawl of a root that cannot be listed (missing, not a directory,
\* no permission) raises nothing and returns no roots and no modules.
C8_InaccessibleRoot ==
  (Crawling /\ ListError(args.top) # "none") =>
    /\ pc # "raised"
    /\ pc = "done" => (ret.val.roots = <<>> /\ ret.val.modules = <<>>)

Walking == op \in {"iter", "crawl"}

WalkOver == Walking /\ pc \in {"done", "raised"}

\* a ".py" file under the walked root with no ignored or locked directory
\* between the root and the file
Reachable(f) ==
  LET r == AbsSegs(args.top)
  IN /\ ListError(args.top) = "none"
     /\ f \in Files
     /\ IsPrefix(r, f)
     /\ \A k \in (Len(r) + 1)..(Len(f) - 1) :
          f[k] \notin IGNORED_DIRS /\ ~IsPrefix(LockedDir, SubSeq(f, 1, k))
     /\ EndsWith(f[Len(f)], <<DOT, "py">>)

\* C9: the walker yields no path twice and no file twice, yields only ".py"
\* files reachable from root without passing through an ignored
\* subdirectory, and by its end has yielded every such file.
C9_WalkYieldsExactlyOnce ==
  Walking =>
    /\ \A i, j \in DOMAIN yielded : AbsSegs(yielded[i]) = AbsSegs(yielded[j]) => i = j
    /\ \A i \in DOMAIN yielded : Reachable(AbsSegs(yielded[i]))
    /\ WalkOver => \A f \in Files : Reachable(f) => \E i \in DOMAIN yielded : AbsSegs(yielded[i]) = f

C9_Witness ==
  /\ op = "iter"
  /\ pc = "done"
  /\ yielded # <<>>
  /\ \E f \in Files :
       /\ IsPrefix(AbsSegs(args.top), f)
       /\ EndsWith(f[Len(f)], <<DOT, "py">>)
       /\ ~Reachable(f)

\* C10: every path _iter_python_files yields is absolute, for an absolute
\* and for a relative root.
C10_YieldedAbsolute ==
  op = "iter" => \A i \in DOMAIN yielded : IsAbs(yielded[i])

\* the edges of one class in the stated order
StatedClassEdges(mod_name, c) ==
  LET cname == mod_name \o <<DOT>> \o c.name
  IN <<[type |-> "module_contains", from |-> mod_name, to |-> cname]>>
       \o [j \in 1..Len(c.methods) |->
             [type |-> "class_contains", from |-> cname, to |-> cname \o <<DOT>> \o c.methods[j].name]]
       \o [j \in 1..Len(c.bases) |-> [type |-> "inherits", from |-> cname, to |-> c.bases[j]]]

RECURSIVE StatedClassesEdges(_, _)
StatedClassesEdges(mod_name, cs) ==
  IF cs = <<>> THEN <<>>
  ELSE StatedClassEdges(mod_name, Head(cs)) \o StatedClassesEdges(mod_name, Tail(cs))

StatedModuleEdges(m) ==
  StatedClassesEdges(m.name, m.classes)
    \o [j \in 1..Len(m.functions) |->
          [type |-> "module_contains", from |-> m.name,
           to |-> m.name \o <<DOT>> \o m.functions[j].name]]
    \o [j \in 1..Len(m.imports) |-> [type |-> "imports", from |-> m.name, to |-> m.imports[j]]]

RECURSIVE StatedEdges(_)
StatedEdges(d) ==
  IF d = <<>> THEN <<>> ELSE StatedModuleEdges(Head(d).v) \o StatedEdges(Tail(d))

\* classes + methods + bases + functions + imports of one module
ModuleEdgeCount(m) ==
  Len(m.classes)
    + SumLen([i \in 1..Len(m.classes) |-> m.classes[i].methods])
    + SumLen([i \in 1..Len(m.classes) |-> m.classes[i].bases])
    + Len(m.functions) + Len(m.imports)

RECURSIVE EdgeCount(_)
EdgeCount(d) == IF d = <<>> THEN 0 ELSE ModuleEdgeCount(Head(d).v) + EdgeCount(Tail(d))

\* C11: build_edges returns, module by module in the order of the mapping,
\* for each class its module_contains edge, its class_contains edges and
\* its inherits edges (one per base, repeated bases included), then the
\* module_contains edges of the functions, then the imports edges; their
\* number is the sum of classes, methods, bases, functions and imports (9
\* for the module with one class of two methods and two bases), and no
\* modules give no edges.  The edges of a crawl are those of its modules.
C11_BuildEdges ==
  /\ op = "build_edges" =>
        /\ ret.val = StatedEdges(args.pkg.modules)
        /\ Len(ret.val) = EdgeCount(args.pkg.modules)
        /\ args.pkg.modules = <<>> => ret.val = <<>>
        /\ args.pkg.modules = <<[k |-> CoreModule.name, v |-> CoreModule]>> => Len(ret.val) = 9
  /\ (Crawling /\ pc = "done") =>
        /\ ret.val.edges = StatedEdges(modules)
        /\ Len(ret.val.edges) = EdgeCount(modules)

C11_Witness ==
  /\ op = "build_edges"
  /\ Len(args.pkg.modules) = 2
  /\ args.pkg.modules[2].v = CoreModule
  /\ \E i, j \in DOMAIN ret.val :
       i < j /\ ret.val[i].type = "inherits" /\ ret.val[i] = ret.val[j]

\* a sequence of strings in strictly ascending order
StrictlySorted(xs) == \A i, j \in DOMAIN xs : i < j => StrLess(xs[i], xs[j])

Keys(d) == [i \in DOMAIN d |-> d[i].k]

ToDictAsStated(dict, mods) ==
  /\ DOMAIN dict = {"root_path", "roots", "modules", "edges"}
  /\ StrictlySorted(Keys(dict.modules))
  /\ Range(Keys(dict.modules)) = Range(Keys(mods))
  /\ mods = <<>> => dict.modules = <<>> /\ dict.edges = <<>>

\* C12: to_dict returns a mapping with exactly the keys root_path, roots,
\* modules and edges; the keys of its modules are those of Package.modules
\* in ascending order whatever the order of insertion; an empty Package
\* gives no modules and no edges.
C12_ToDictSortedKeys ==
  /\ op = "to_dict" => ToDictAsStated(ret.val, args.pkg.modules)
  /\ (Crawling /\ pc = "done") => ToDictAsStated(ret.val, modules)

C12_Witness ==
  /\ op = "to_dict"
  /\ Len(args.pkg.modules) = 2
  /\ StrLess(args.pkg.modules[2].k, args.pkg.modules[1].k)

ImportEdges(edges) == SelectSeq(edges, LAMBDA e : e.type = "imports")

NoRepeat(xs) == \A i, j \in DOMAIN xs : xs[i] = xs[j] => i = j

\* the imports of every module of a mapping are in strictly ascending order
ImportsSorted(d) == \A i \in DOMAIN d : StrictlySorted(d[i].v.imports)

\* C13 as stated: the imports of every module a Package holds are sorted
\* and without duplicates.
C13_ImportsSortedAsStated ==
  /\ op \in {"build_edges", "to_dict"} => ImportsSorted(args.pkg.modules)
  /\ Crawling => ImportsSorted(modules)

\* C13: the imports of every module that Module.from_file or the parser of
\* the crawl builds are in ascending order without duplicates, and the edges
\* of a crawl hold no two imports edges with the same from and to.
C13_ParsedImportsSorted ==
  /\ Crawling =>
       /\ ImportsSorted(modules)
       /\ pc = "done" => ImportsSorted(ret.val.modules) /\ NoRepeat(ImportEdges(ret.val.edges))
  /\ (op = "from_file" /\ exc = "none" /\ ~ret.none) => StrictlySorted(ret.val.imports)

\* a crawl has stored the module of a mod.py, whose text imports b, a, a, b
C13_Witness ==
  /\ Crawling
  /\ pc = "done"
  /\ \E i \in DOMAIN yielded :
       /\ Parsed(yielded[i])
       /\ AbsSegs(yielded[i])[Len(AbsSegs(yielded[i]))] = ModPy
       /\ \E j \in DOMAIN modules :
            /\ modules[j].v.path = OsAbspath(yielded[i])
            /\ modules[j].v.imports = << <<"a">>, <<"b">> >>

\* a finite set of strings as the list in ascending order
RECURSIVE SortSet(_)
SortSet(S) ==
  IF S = {} THEN <<>>
  ELSE LET m == CHOOSE x \in S : \A y \in S : y = x \/ StrLess(x, y)
       IN <<m>> \o SortSet(S \ {m})

\* the paths the walker yields when every directory is listed in ascending
\* order
RECURSIVE WalkSorted(_)
WalkSorted(dirs) ==
  IF dirs = <<>> THEN <<>>
  ELSE LET top == Head(dirs)
           listing == SortSet(Children(AbsSegs(top)))
       IN IF ListError(top) # "none" THEN WalkSorted(Tail(dirs))
          ELSE WalkFiles(top, listing) \o WalkSorted(WalkDirs(top, listing) \o Tail(dirs))

\* the modules of a crawl of top that meets the files in this order
RECURSIVE StoreAll(_, _, _)
StoreAll(mods, files, top) ==
  IF files = <<>> THEN mods
  ELSE StoreAll(CrawlStore(mods, _parse_module(Head(files), CrawlName(top, Head(files)))),
                Tail(files), top)

\* what the crawl returns when every directory is listed in ascending order
CrawlSorted(top) ==
  Package_to_dict(Package(PosixPath(args.top),
                          _discover_roots(top, SortSet(Children(AbsSegs(top)))).val,
                          StoreAll(<<>>, WalkSorted(<<top>>), top)))

NoNameClash ==
  \A i, j \in DOMAIN yielded :
    CrawlName(args.top, yielded[i]) = CrawlName(args.top, yielded[j]) => i = j

\* C14: the dictionary a crawl returns does not depend on the order in which
\* the directories were listed: when no two files resolve to the same name
\* it is the dictionary of the crawl that lists every directory in ascending
\* order, the order of the modules and of the edges included.
C14_OrderIndependent ==
  (Crawling /\ pc = "done" /\ NoNameClash) => ret.val = CrawlSorted(args.top)

\* the part of C14 that the sort of to_dict secures: the modules
C14_ModulesOrderIndependent ==
  (Crawling /\ pc = "done" /\ NoNameClash) => ret.val.modules = CrawlSorted(args.top).modules

\* the same for the edges alone
C14_EdgesOrderIndependent ==
  (Crawling /\ pc = "done" /\ NoNameClash) => ret.val.edges = CrawlSorted(args.top).edges

\* C15: to_json of the dictionary of any Package, one produced by a crawl
\* included, raises nothing, and json.loads of its result is the dictionary.
C15_JsonRoundTrip ==
  op = "to_json" => exc = "none" /\ json_loads(ret.val) = args.value

\* the same for the Packages whose root_path is a str
C15_JsonRoundTripOfStrRoot ==
  (op = "to_json" /\ args.of = "Package") => exc = "none" /\ json_loads(ret.val) = args.value

Rendering == op = "render"

BadLevels == SelectSeq(args.levels, LAMBDA l : l \notin {"all", "public", "none"})

\* the error message holds the value in quotes and the list of the levels
NamesValueAndLevels(msg, value) ==
  /\ \E i \in 1..(Len(msg) - 2) : msg[i] = " '" /\ msg[i + 1] = value /\ msg[i + 2] = "'. Expected one of "
  /\ \E i \in DOMAIN msg : msg[i] = "['all', 'none', 'public']"

\* C16: every diagram renderer, of mermaid.py and of the data model, called
\* with a detail level other than all, public and none raises ValueError
\* with a message that names the first such value and the allowed levels,
\* and returns no diagram.
C16_InvalidDetailLevel ==
  (Rendering /\ BadLevels # <<>>) =>
    /\ exc = "ValueError"
    /\ pc = "raised"
    /\ NamesValueAndLevels(ret.msg, BadLevels[1])
    /\ ret.val = <<>>

C16_Witness ==
  /\ Rendering
  /\ args.kind = "package"
  /\ args.impl = "mermaid"
  /\ args.obj.modules # <<>>
  /\ args.levels[1] = "all"
  /\ args.levels[2] = "ALL"
  /\ exc = "ValueError"

\* a complete rendering of the same kind: every level valid, nothing raised
C16_RenderedWitness ==
  /\ Rendering
  /\ args.kind = "package"
  /\ args.obj.modules # <<>>
  /\ BadLevels = <<>>
  /\ exc = "none"
  /\ Len(SplitLines(ret.val)) > 3

Lines == SplitLines(ret.val)

MethodLines == SelectSeq(Lines, LAMBDA l : l # <<>> /\ Head(l) = "  +")

\* the methods stated for a level
StatedMethods(cls, level) ==
  IF level = "all" THEN cls.methods
  ELSE IF level = "public" THEN SelectSeq(cls.methods, LAMBDA m : Head(m.name) # "_")
  ELSE <<>>

\* how often a line is among the lines
Times(lines, l) == Cardinality({i \in DOMAIN lines : lines[i] = l})

\* C17: the class diagram of either renderer holds the class block and one
\* method line for each selected method and no other: every method for
\* "all", the methods whose names do not start with "_" for "public", none
\* for "none".
C17_ClassMethodSelection ==
  (Rendering /\ args.kind = "class" /\ exc = "none") =>
    LET chosen == StatedMethods(args.obj, args.levels[1])
    IN /\ Len(MethodLines) = Len(chosen)
       /\ \A i \in DOMAIN chosen :
            Times(MethodLines, <<"  +">> \o chosen[i].name \o <<"()">>)
              = Cardinality({j \in DOMAIN chosen : chosen[j].name = chosen[i].name})
       /\ \E i \in DOMAIN Lines :
            /\ Lines[i] = <<"class ">> \o args.obj.name \o <<" ", "{">>
            /\ Lines[i + Len(chosen) + 1] = <<"}">>

C17_Witness ==
  /\ Rendering
  /\ args.kind = "class"
  /\ args.levels = <<"public">>
  /\ exc = "none"
  /\ Len(args.obj.methods) = 2
  /\ Len(MethodLines) = 1

\* "none" still gives the class block
C17_NoneWitness ==
  /\ Rendering
  /\ args.kind = "class"
  /\ args.levels = <<"none">>
  /\ args.obj.methods # <<>>
  /\ MethodLines = <<>>
  /\ Len(Lines) >= 3

\* the value of the k-th sequence field of instance i in a heap
FieldValue(h, i, k) == h[objs[i].refs[k]]

FieldsOf(os) == {<<i, k>> \in (DOMAIN os) \X (1..3) : k \in DOMAIN os[i].refs}

\* a step that makes an instance leaves it with empty fields, and a step
\* changes the value of at most one field of one instance
C18_Step ==
  /\ Len(objs') > Len(objs) =>
       \A k \in DOMAIN objs'[Len(objs')].refs : heap'[objs'[Len(objs')].refs[k]] = <<>>
  /\ objs' = objs =>
       Cardinality({p \in FieldsOf(objs) : FieldValue(heap', p[1], p[2]) # FieldValue(heap, p[1], p[2])}) <= 1

\* C18: a Function, Class or Module made without its sequence fields starts
\* with empty containers, and an append to a field of one instance changes
\* no other field of that or of any other instance.
C18_FreshContainers == [][C18_Step]_vars

\* two instances of one class, the first with an element appended before
\* the second was made
C18_Witness ==
  /\ Len(objs) = 2
  /\ objs[1].cls = objs[2].cls
  /\ heap[objs[1].refs[1]] = <<"x">>
  /\ heap[objs[2].refs[1]] = <<>>
  /\ SumLen(heap) = 1

RenderingTree == op = "render_tree"

\* the output has the line of a module: one indentation per parent package,
\* a branch, and the last part of the dotted name
HasTreeLine(name) ==
  LET parts == IF name = <<>> THEN << <<"<root>">> >> ELSE SplitOn(name, DOT)
      n == Len(parts)
  IN \E i \in 2..Len(Lines) :
       /\ Len(Lines[i]) = n + 1 + Len(parts[n])
       /\ \A j \in 1..(n - 1) : Lines[i][j] \in {"   ", "|  "}
       /\ Lines[i][n] \in {"L", "+"}
       /\ Lines[i][n + 1] = "- "
       /\ SubSeq(Lines[i], n + 2, Len(Lines[i])) = parts[n]

RootsHeader(roots) == <<"Package roots: ">> \o JoinWith(roots, <<", ">>)

\* C19 as stated: render_tree(P) on a Package succeeds and returns the string
\* render_tree(P.to_dict()) returns
C19_RenderTreeOfPackage ==
  RenderingTree /\ args.form = "object" =>
    /\ exc = "none"
    /\ ret.val = render_tree(Package_to_dict(args.pkg)).val

\* C19, amended: render_tree(P.to_dict()) succeeds and returns the roots
\* header followed by a tree with one line per module, nested by the dots of
\* its name; render_tree(P) on the Package itself raises AttributeError
C19_RenderTreeOfDict ==
  RenderingTree /\ args.form \in {"object", "dict"} =>
    IF args.form = "object" THEN exc = "AttributeError"
    ELSE /\ exc = "none"
         /\ Lines[1] = RootsHeader(args.pkg.roots)
         /\ \A i \in DOMAIN args.pkg.modules : HasTreeLine(args.pkg.modules[i].k)

C19_Witness ==
  /\ RenderingTree
  /\ args.form = "dict"
  /\ args.impl = "crawler"
  /\ exc = "none"
  /\ \E i \in DOMAIN args.pkg.modules : args.pkg.modules[i].k = <<"a", DOT, "b">>
  /\ HasTreeLine(<<"a", DOT, "b">>)

C19_PackageWitness ==
  /\ RenderingTree
  /\ args.form = "object"
  /\ Len(args.pkg.modules) = 2
  /\ exc = "AttributeError"

C20_DefaultedWitness ==
  /\ RenderingTree
  /\ args.form = "malformed"
  /\ args.at.level = "class"
  /\ args.at.key = "methods"
  /\ exc = "none"
  /\ Len(Lines) > 2

\* the names of the callables declared directly in a body, in source order
DeclaredCallables(body) ==
  LET nodes == SelectSeq(body, IsFunctionNode)
  IN [i \in 1..Len(nodes) |-> nodes[i].name]

NamesOf(items) == [i \in 1..Len(items) |-> items[i].name]

\* a Module lists the callables of the file in source order, at the top
\* level and in every class
InDeclarationOrder(mod, body) ==
  /\ NamesOf(mod.functions) = DeclaredCallables(body)
  /\ LET nodes == SelectSeq(body, LAMBDA n : n.kind = "ClassDef")
     IN /\ Len(mod.classes) = Len(nodes)
        /\ \A i \in 1..Len(nodes) :
             NamesOf(mod.classes[i].methods) = DeclaredCallables(nodes[i].body)

BuiltFromFile == op = "from_file" /\ exc = "none" /\ ~ret.none

\* C21: the functions of a built Module are the top-level callables in
\* source order and the methods of each class its callables in source order,
\* synchronous and asynchronous ones interleaved as in the source
C21_DeclarationOrder ==
  BuiltFromFile => InDeclarationOrder(ret.val, TreeBody(args.file))

TreeRendered == RenderingTree /\ args.form = "dict" /\ exc = "none"

\* the lines of the tree, without the header
TreeLines == IF Len(Lines) = 2 /\ Lines[2] = <<>> THEN <<>> ELSE Tail(Lines)

\* the depth of a line: its indentations before the branch marker
RECURSIVE Depth(_)
Depth(line) ==
  IF line # <<>> /\ Head(line) \in {"   ", "|  "} THEN 1 + Depth(Tail(line)) ELSE 0

\* the line carries the last-child marker
LastMarked(line) == line[Depth(line) + 1] = "L"

\* no later line of the same parent: the next line that is not deeper, if
\* there is one, is less deep
IsLastEntry(ls, i) ==
  \A k \in (i + 1)..Len(ls) :
    Depth(ls[k]) = Depth(ls[i]) => \E j \in (i + 1)..(k - 1) : Depth(ls[j]) < Depth(ls[i])

\* C22: of the entries drawn at one node (class, function and child-segment
\* lines) and of the method lines of one class, the final one carries the
\* last-child marker and every earlier one the non-last-child marker
C22_BranchMarkers ==
  TreeRendered => \A i \in 1..Len(TreeLines) : LastMarked(TreeLines[i]) <=> IsLastEntry(TreeLines, i)

\* the dotted-name prefixes of the module names: the segments of the trie
PartsOf(name) == IF name = <<>> THEN << <<"<root>">> >> ELSE SplitOn(name, DOT)

Prefixes(d) ==
  UNION {{SubSeq(PartsOf(d[i].k), 1, n) : n \in 1..Len(PartsOf(d[i].k))} : i \in DOMAIN d}

\* the strict prefixes of a path of segments, and the paths below it
IsBelow(p, q) == Len(q) < Len(p) /\ SubSeq(p, 1, Len(q)) = q

\* the lines stated for the module at a path: its classes, each followed by
\* its methods, then its functions, as (kind, depth, name)
TreeEntry(kind, depth, name) == [kind |-> kind, depth |-> depth, name |-> name]

StatedModuleEntries(d, path) ==
  LET at == {i \in DOMAIN d : PartsOf(d[i].k) = path}
  IN IF at = {} THEN <<>>
     ELSE LET mod == d[CHOOSE i \in at : TRUE].v
          IN Flatten([c \in 1..Len(mod.classes) |->
                        <<TreeEntry("class", Len(path), mod.classes[c].name)>>
                          \o [j \in 1..Len(mod.classes[c].methods) |->
                                TreeEntry("def", Len(path) + 1, mod.classes[c].methods[j].name)]])
                 \o [f \in 1..Len(mod.functions) |->
                       TreeEntry("def", Len(path), mod.functions[f].name)]

\* the stated tree: per segment its line, the lines of its module, and the
\* lines of the segments below it
RECURSIVE StatedTree(_, _, _)
StatedTree(d, paths, parent) ==
  LET kids == {p \in paths : Len(p) = Len(parent) + 1 /\ IsBelow(p, parent)}
      order == SortSet({p[Len(p)] : p \in kids})
  IN Flatten([i \in 1..Len(order) |->
                <<TreeEntry("segment", Len(parent), order[i])>>
                  \o StatedModuleEntries(d, Append(parent, order[i]))
                  \o StatedTree(d, paths, Append(parent, order[i]))])

\* what a line of the output shows
EntryOf(line) ==
  LET rest == SubSeq(line, Depth(line) + 1, Len(line))
  IN IF rest[1] = "+- class "
       THEN TreeEntry("class", Depth(line),
                      SubSeq(rest, 2, (CHOOSE k \in 1..Len(rest) : rest[k] = " (bases: ") - 1))
     ELSE IF rest[2] = "- def " THEN TreeEntry("def", Depth(line), SubSeq(rest, 3, Len(rest) - 1))
     ELSE TreeEntry("segment", Depth(line), SubSeq(rest, 3, Len(rest)))

\* C23: render_tree of a well-formed dictionary gives the header of the
\* comma-joined roots and then, depth-first with the child segments sorted,
\* one segment line per dotted-name prefix of the module names and, for every
\* module, one line per class, method and function: no module is left out
\* and none is drawn twice
C23_TreeComplete ==
  TreeRendered =>
    /\ Lines[1] = RootsHeader(args.value.roots)
    /\ [i \in 1..Len(TreeLines) |-> EntryOf(TreeLines[i])]
         = StatedTree(args.value.modules, Prefixes(args.value.modules), <<>>)

C23_Witness ==
  /\ TreeRendered
  /\ args.impl = "viewer"
  /\ Len(args.value.roots) = 2
  /\ Len(args.value.modules) = 2
  /\ \E i \in DOMAIN args.value.modules : args.value.modules[i].k = <<>>
  /\ \E i \in 1..Len(TreeLines) : EntryOf(TreeLines[i]) = TreeEntry("segment", 0, <<"<root>">>)
  /\ \E i \in 1..Len(TreeLines) : EntryOf(TreeLines[i]).kind = "class"

\* the modules a call has built, each with the statements of its file
BuiltModules ==
  IF BuiltFromFile THEN {[mod |-> ret.val, body |-> TreeBody(args.file)]}
  ELSE IF Crawling THEN {[mod |-> modules[j].v, body |-> TreeBody(modules[j].v.path)] : j \in DOMAIN modules}
  ELSE {}

TopLevel(body, kinds) == SelectSeq(body, LAMBDA n : n.kind \in kinds)

\* the names a top-level import statement names
TopLevelImported(body) ==
  UNION {Range(n.names) : n \in Range(TopLevel(body, {"Import"}))}
    \cup {n.module : n \in Range(TopLevel(body, {"ImportFrom"}))}

\* C24: a built Module records the classes and callables declared at the top
\* level of the file and no other (none from a function body, a conditional
\* block or a class body), its imports come from top-level import statements
\* only, and the methods of a class are the callables directly in its body
C24_TopLevelOnly ==
  \A b \in BuiltModules :
    /\ NamesOf(b.mod.classes) = NamesOf(TopLevel(b.body, {"ClassDef"}))
    /\ Sorted(NamesOf(b.mod.functions)) = Sorted(DeclaredCallables(b.body))
    /\ Range(b.mod.imports) \subseteq TopLevelImported(b.body)
    /\ \A i \in DOMAIN b.mod.classes :
         NamesOf(b.mod.classes[i].methods) = DeclaredCallables(TopLevel(b.body, {"ClassDef"})[i].body)

\* mod.py, which declares h, B and imports of x and mod below the top level
C24_Witness ==
  /\ BuiltFromFile
  /\ TreeBody(args.file) = SourceMod
  /\ NamesOf(ret.val.classes) = << <<"A">> >>
  /\ Len(ret.val.functions) = 2
  /\ NamesOf(ret.val.classes[1].methods) = << <<"m">>, <<"_", "p">> >>
  /\ <<"x">> \notin Range(ret.val.imports)

C24_CrawlWitness ==
  /\ Crawling
  /\ pc = "done"
  /\ \E b \in BuiltModules : b.body = SourceMod /\ Len(b.mod.functions) = 2

\* the names the import statements at the top level contribute
StatedImports(body) ==
  UNION {Range(n.names) : n \in Range(TopLevel(body, {"Import"}))}
    \cup {n.module : n \in {k \in Range(TopLevel(body, {"ImportFrom"})) : k.module # <<>>}}

\* C25: the imports of a built Module are the set of the target names of the
\* top-level import statements and of the non-empty source names of the
\* top-level from-imports, each once
C25_ImportsExact ==
  \A b \in BuiltModules :
    /\ Range(b.mod.imports) = StatedImports(b.body)
    /\ Len(b.mod.imports) = Cardinality(StatedImports(b.body))

\* mod.py: "from a import x, b" gives a once, "from . import x" nothing
C25_Witness ==
  /\ BuiltFromFile
  /\ TreeBody(args.file) = SourceMod
  /\ ret.val.imports = << <<"a">>, <<"b">> >>

\* the inheritance lines of a rendered diagram
InheritanceLines == SelectSeq(Lines, LAMBDA l : " <|-- " \in Range(l))

\* C26: with the inheritance relations enabled a module or package diagram
\* shows no "Base <|-- Derived" line more than once
C26_InheritanceOnce ==
  (Rendering /\ args.kind \in {"module", "package"} /\ args.flags[1] /\ exc = "none") =>
    \A i, j \in DOMAIN InheritanceLines : InheritanceLines[i] = InheritanceLines[j] => i = j

\* the package diagrams alone show every relation once
C26_PackageInheritanceOnce ==
  (Rendering /\ args.kind = "package" /\ args.flags[1] /\ exc = "none") =>
    \A i, j \in DOMAIN InheritanceLines : InheritanceLines[i] = InheritanceLines[j] => i = j

\* C27: a render_* helper leaves its arguments as they were: the Style
\* passed to render_module_diagram has the same fields after the call
C27_StyleUnchanged ==
  (Rendering /\ args.kind = "module" /\ args.impl = "mermaid") => ret.style = args.style

\* C28: viewer.render_tree and crawler.render_tree return the same string for
\* the same dictionary, or fail with the same kind of error
C28_RenderTreeMirrors ==
  RenderingTree =>
    /\ render_tree(args.value).exc = crawler_render_tree(args.value).exc
    /\ render_tree(args.value).val = crawler_render_tree(args.value).val

\* a dictionary of a module with classes and a module below it, drawn by
\* the crawler's copy
C28_Witness ==
  /\ RenderingTree
  /\ args.impl = "crawler"
  /\ args.form = "dict"
  /\ exc = "none"
  /\ Len(args.value.modules) = 2
  /\ \E i \in 1..Len(TreeLines) : Depth(TreeLines[i]) = 2
  /\ ret.val = render_tree(args.value).val

C28_ErrorWitness ==
  /\ RenderingTree
  /\ args.impl = "viewer"
  /\ args.form = "malformed"
  /\ exc = "KeyError"
  /\ crawler_render_tree(args.value).exc = "KeyError"

\* C29: the dictionary of to_dict shares no list with the instance: after an
\* append to a list of the dictionary every list field of the instance holds
\* what it held when to_dict was called
C29_ToDictSharesNothing ==
  pc = "mutated" =>
    \A k \in DOMAIN objs[args.of].refs : heap[objs[args.of].refs[k]] = ret.fields[k]

\* the lists that to_dict builds anew are not shared
C29_ComprehendedNotShared ==
  pc = "mutated" /\ ListFields(objs[args.of].cls)[args.key] \in Comprehended(objs[args.of].cls) =>
    \A k \in DOMAIN objs[args.of].refs : heap[objs[args.of].refs[k]] = ret.fields[k]

ParsedFiles == {i \in DOMAIN yielded : Parsed(yielded[i])}

\* C30 as stated: two distinct source files of one crawl never resolve to
\* the same dotted name
C30_NamesInjective ==
  Crawling =>
    \A i, j \in DOMAIN yielded :
      CrawlName(args.top, yielded[i]) = CrawlName(args.top, yielded[j]) => i = j

\* C30, amended: files of one crawl can resolve to the same dotted name; the
\* result holds one module per distinct name of the parsed files, and the
\* module of a parsed file is missing exactly when a file parsed later has
\* the same name
C30_LostOnlyToCollision ==
  (Crawling /\ pc = "done") =>
    /\ Len(ret.val.modules) = Cardinality({CrawlName(args.top, yielded[i]) : i \in ParsedFiles})
    /\ \A i \in ParsedFiles :
         (\E j \in DOMAIN ret.val.modules : ret.val.modules[j].v.path = OsAbspath(yielded[i]))
           <=> ~\E k \in ParsedFiles :
                  k > i /\ CrawlName(args.top, yielded[k]) = CrawlName(args.top, yielded[i])

\* the crawl of a root package a that holds __init__.py and a.py: both
\* resolve to a, and one module is left
C30_Witness ==
  /\ Crawling
  /\ pc = "done"
  /\ Cardinality(ParsedFiles) = 2
  /\ \A i \in ParsedFiles : CrawlName(args.top, yielded[i]) = <<"a">>
  /\ \E i \in ParsedFiles : AbsSegs(yielded[i])[Len(AbsSegs(yielded[i]))] = InitPy
  /\ Len(ret.val.modules) = 1

====
